---- MODULE Spec2Model ----
(***************************************************************************)
(* Model of the clipdeck financial-service: the balance/transaction ledger *)
(* (services/balanceService.ts), the prize distributor                     *)
(* (services/prizeService.ts), the payout batch                            *)
(* (services/payoutService.ts), the clip-approval and campaign-closure     *)
(* sagas (sagas/campaignClosure.ts) and the event handlers that drive them *)
(* (events/handlers.ts).                                                   *)
(*                                                                         *)
(* Every storage access of the code is one step of the worker that runs    *)
(* it, so that the steps of two workers interleave the way awaited calls   *)
(* of two requests or two event deliveries interleave in the Node process. *)
(***************************************************************************)
EXTENDS Integers, Sequences, FiniteSets, TLC

\* ------------------------------------------------------------------ bounds
\* largest amount a direct ledger call is made with
MaxAmount == 2
\* direct ledger calls start only while the log holds fewer rows than this
MaxTx == 2

\* event deliveries (first deliveries and redeliveries) in one behaviour
MaxDeliveries == 4

\* the largest view count, base pay, reward per view and per-clip limit a
\* payment is calculated for, besides those of the documented example
MaxViews == 2
MaxBasePay == 2
MaxRate == 2
MaxLimit == 3

Users == {"e1", "e2", "cr"}
ApiUsers == {"e1", "e2"}
Campaigns == {"c1", "c2"}
Workers == {"w1", "w2"}
\* the worker that handles the deliveries made one at a time
Consumer == {"w1"}
Amounts == -1..MaxAmount

\* --------------------------------------------------------------- the state
VARIABLES
  balance,       \* Balance table: userId -> row (exists = FALSE: no row)
  transactions,  \* Transaction table, in insertion order
  call,          \* per worker: the ledger call it is executing
  proc,          \* per worker: the request or event handler it is executing
  base,          \* ledger as it stood when the running direct calls began
  last,          \* the direct call that returned last, with its base
  leaderboard,   \* LeaderboardEntry table: submissionId -> entry
  events,        \* the consumer's queue: event -> delivery status and payload
  deliveries,    \* number of deliveries and payout requests made so far
  hist,          \* the ledger at the stages of the last two closure runs
  quote,         \* a calculateClipPayment call: its input and its result
  appConfig      \* the configuration the process was started with

sagaVars == <<leaderboard, events, deliveries, hist>>

vars == <<balance, transactions, call, proc, base, last, leaderboard, events,
          deliveries, hist, quote, appConfig>>

\* ------------------------------------------------------------ ledger rows
NoBalance == [exists |-> FALSE, available |-> 0, pending |-> 0]

Row(available, pending) ==
  [exists |-> TRUE, available |-> available, pending |-> pending]

\* a wrong row: the campaignId is left out of the create
TxRowNoCampaign(userId, campaignId, amount, type, description) ==
  [userId |-> userId, campaignId |-> "none", amount |-> amount, type |-> type,
   description |-> description]

TxRow(userId, campaignId, amount, type, description) ==
  [userId |-> userId, campaignId |-> campaignId, amount |-> amount, type |-> type,
   description |-> description]

\* a wrong create: the row takes the place of the last row of the log
CreateTransactionOverLast(log, row) ==
  IF log = <<>> THEN <<row>> ELSE [log EXCEPT ![Len(log)] = row]

\* transaction.create({ data: {...} }): the row is added to the log
CreateTransaction(log, row) == Append(log, row)

Ledger == [bal |-> balance, log |-> transactions]

EmptyLedger == [bal |-> [u \in Users |-> NoBalance], log |-> <<>>]

\* ---------------------------------------------------- balanceService.ts
Mutators == {"addFunds", "reserveFunds", "releasePending", "refundToCreator"}

LedgerOps == Mutators \cup {"getBalance"}

TxType(op) ==
  CASE op = "addFunds" -> "DEPOSIT"
    [] op = "reserveFunds" -> "RESERVATION"
    [] op = "releasePending" -> "PAYOUT"
    [] op = "refundToCreator" -> "REFUND"

\* a wrong check: a zero amount is let through
AmountRejectedBelowZero(amount) == amount < 0

\* if (amount <= 0) throw badRequest('Amount must be positive')
AmountRejected(amount) == amount <= 0

\* a wrong upsert: an existing row's available is set to the amount
UpsertAvailableOverwrite(bal, userId, amount) ==
  [bal EXCEPT ![userId] = Row(amount, IF @.exists THEN @.pending ELSE 0)]

\* tx.balance.upsert({ create: {available: amount, pending: 0},
\*                     update: {available: {increment: amount}} })
UpsertAvailable(bal, userId, amount) ==
  [bal EXCEPT ![userId] =
     IF @.exists THEN [@ EXCEPT !.available = @ + amount] ELSE Row(amount, 0)]

\* a wrong reserve: the amount is moved out of available into pending
IncrementPendingFromAvailable(bal, userId, amount) ==
  [bal EXCEPT ![userId] =
     IF @.exists THEN [@ EXCEPT !.pending = @ + amount, !.available = @ - amount]
     ELSE Row(0 - amount, amount)]

\* reserveFunds: create the row with zeros when findUnique saw none, then
\* update({ pending: {increment: amount} })
IncrementPending(bal, userId, amount) ==
  [bal EXCEPT ![userId] =
     IF @.exists THEN [@ EXCEPT !.pending = @ + amount] ELSE Row(0, amount)]

\* a wrong check: the pending test is left out
ReleaseCheckNoPending(current, amount) ==
  IF ~current.exists THEN "NotFound" ELSE "ok"

\* a wrong check: the amount is compared with available
ReleaseCheckOnAvailable(current, amount) ==
  IF ~current.exists THEN "NotFound"
  ELSE IF current.available < amount THEN "InsufficientPending"
  ELSE "ok"

\* a wrong check: a missing row is let through
ReleaseCheckMissingOk(current, amount) ==
  IF current.exists /\ current.pending < amount THEN "InsufficientPending"
  ELSE "ok"

\* releasePending: the two checks on the row findUnique returned
ReleaseCheck(current, amount) ==
  IF ~current.exists THEN "NotFound"
  ELSE IF current.pending < amount THEN "InsufficientPending"
  ELSE "ok"

\* a wrong release: pending is decremented, available is not credited
ReleaseUpdateNoCredit(bal, userId, amount) ==
  [bal EXCEPT ![userId] = [@ EXCEPT !.pending = @ - amount]]

\* releasePending: update({ available: {increment}, pending: {decrement} })
ReleaseUpdate(bal, userId, amount) ==
  [bal EXCEPT ![userId] =
     [@ EXCEPT !.available = @ + amount, !.pending = @ - amount]]

\* balance.create({ data: { userId, available: 0, pending: 0 } })
CreateZero(bal, userId) == [bal EXCEPT ![userId] = Row(0, 0)]

\* a wrong refund: the amount is credited to pending
BalanceUpdateRefundToPending(op, bal, userId, amount) ==
  CASE op = "addFunds" -> UpsertAvailable(bal, userId, amount)
    [] op = "refundToCreator" -> IncrementPending(bal, userId, amount)
    [] op = "reserveFunds" -> IncrementPending(bal, userId, amount)
    [] op = "releasePending" -> ReleaseUpdate(bal, userId, amount)

\* the balance update of a mutator's storage transaction
BalanceUpdate(op, bal, userId, amount) ==
  CASE op = "addFunds" -> UpsertAvailable(bal, userId, amount)
    [] op = "refundToCreator" -> UpsertAvailable(bal, userId, amount)
    [] op = "reserveFunds" -> IncrementPending(bal, userId, amount)
    [] op = "releasePending" -> ReleaseUpdate(bal, userId, amount)

\* --------------------------------------------------- a ledger call's frame
NoCall ==
  [op |-> "none", userId |-> "none", campaignId |-> "none", amount |-> 0,
   description |-> "none", pc |-> "none", current |-> NoBalance, result |-> "none", ret |-> NoBalance]

\* what is remembered of the last direct call: a reserveFunds that passed its
\* amount check, with the caller's balance row as it stood before the call
NoLast == [op |-> "none", userId |-> "none", amount |-> 0, before |-> NoBalance]

Remember(c, b) ==
  IF c.op = "reserveFunds" /\ c.result # "InvalidAmount"
    THEN [op |-> c.op, userId |-> c.userId, amount |-> c.amount,
          before |-> b.bal[c.userId]]
    ELSE NoLast

\* Entering the function: the amount check is the first statement and reads
\* no storage, so it is part of the step that makes the call.
Enter(op, userId, amount, campaignId, description) ==
  LET c == [NoCall EXCEPT !.op = op, !.userId = userId, !.amount = amount,
                          !.campaignId = campaignId, !.description = description]
  IN IF op \in Mutators /\ AmountRejected(amount)
       THEN [c EXCEPT !.pc = "returned", !.result = "InvalidAmount"]
     ELSE IF op \in {"addFunds", "refundToCreator"}
       THEN [c EXCEPT !.pc = "write"]
     ELSE [c EXCEPT !.pc = "read"]

\* findUnique({ where: { userId } }) of reserveFunds, releasePending and
\* getBalance, and the branches taken on its result
CallRead(w) ==
  /\ call[w].pc = "read"
  /\ LET c == call[w]
         cur == balance[c.userId]
     IN call' = [call EXCEPT ![w] =
          CASE c.op = "releasePending" ->
                 IF ReleaseCheck(cur, c.amount) = "ok"
                   THEN [c EXCEPT !.current = cur, !.pc = "write"]
                   ELSE [c EXCEPT !.current = cur, !.pc = "returned",
                                  !.result = ReleaseCheck(cur, c.amount)]
            [] c.op = "reserveFunds" -> [c EXCEPT !.current = cur, !.pc = "write"]
            [] c.op = "getBalance" ->
                 IF cur.exists
                   THEN [c EXCEPT !.current = cur, !.pc = "returned",
                                  !.result = "ok", !.ret = cur]
                   ELSE [c EXCEPT !.current = cur, !.pc = "create"]]
  /\ UNCHANGED <<balance, transactions, proc, base, last, quote, appConfig, sagaVars>>

\* The writes of a mutator's storage transaction, which take effect together
\* when it commits: the balance update and the transaction row.  The update
\* is an increment in the database, applied to the row as it is then, not to
\* the row findUnique returned.  A create of a row that another transaction
\* created since the findUnique violates the unique key on userId and rolls
\* the transaction back.  prisma.$transaction is called without an isolation
\* level: under read committed the update of a row that changed since the
\* findUnique goes through, under snapshot isolation it aborts the transaction.
CallWrite(w) ==
  /\ call[w].pc = "write"
  /\ LET c == call[w]
         readFirst == c.op \in {"reserveFunds", "releasePending"}
         commit ==
           /\ balance' = BalanceUpdate(c.op, balance, c.userId, c.amount)
           /\ transactions' = CreateTransaction(transactions,
                TxRow(c.userId, c.campaignId, c.amount, TxType(c.op), c.description))
           /\ call' = [call EXCEPT ![w] =
                [c EXCEPT !.pc = "publish", !.ret = balance'[c.userId]]]
         abort(error) ==
           /\ call' = [call EXCEPT ![w] =
                [c EXCEPT !.pc = "returned", !.result = error]]
           /\ UNCHANGED <<balance, transactions>>
     IN IF c.op = "reserveFunds" /\ ~c.current.exists /\ balance[c.userId].exists
          THEN abort("UniqueViolation")
        ELSE IF readFirst /\ c.current # balance[c.userId]
          THEN commit \/ abort("WriteConflict")
        ELSE commit
  /\ UNCHANGED <<proc, base, last, quote, appConfig, sagaVars>>

\* getBalance: balance.create when findUnique returned null
CallCreate(w) ==
  /\ call[w].pc = "create"
  /\ LET c == call[w] IN
       IF balance[c.userId].exists
         THEN /\ call' = [call EXCEPT ![w] =
                   [c EXCEPT !.pc = "returned", !.result = "UniqueViolation"]]
              /\ UNCHANGED balance
         ELSE /\ balance' = CreateZero(balance, c.userId)
              /\ call' = [call EXCEPT ![w] =
                   [c EXCEPT !.pc = "returned", !.result = "ok", !.ret = Row(0, 0)]]
  /\ UNCHANGED <<transactions, proc, base, last, quote, appConfig, sagaVars>>

\* await publisher.publish(...) after the storage transaction: it resolves,
\* or rejects and the call throws with the transaction already committed
CallPublish(w) ==
  /\ call[w].pc = "publish"
  /\ \E delivered \in BOOLEAN :
       call' = [call EXCEPT ![w] =
         [@ EXCEPT !.pc = "returned",
                   !.result = IF delivered THEN "ok" ELSE "PublishFailed"]]
  /\ UNCHANGED <<balance, transactions, proc, base, last, quote, appConfig, sagaVars>>

\* a storage access of a ledger call fails (connection lost, timeout): the
\* storage transaction, if one is open, rolls back and the call throws
CallFault(w) ==
  /\ call[w].pc \in {"read", "write", "create"}
  /\ call' = [call EXCEPT ![w] =
       [@ EXCEPT !.pc = "returned", !.result = "StorageError"]]
  /\ UNCHANGED <<balance, transactions, proc, base, last, quote, appConfig, sagaVars>>

\* ------------------------------------------------------ payoutService.ts
\* Amounts of money are counted in halves of the currency unit in this part,
\* so that a fraction can be told from a whole amount: Whole(n) is n units.
Whole(n) == 2 * n

IsWhole(h) == h % 2 = 0

\* Math.round of an amount given in halves, in units: to the nearest whole,
\* a half going up
Round(h) == (h + 1) \div 2

\* limitPerClip?: number
NoLimit == [set |-> FALSE, value |-> 0]

Limit(h) == [set |-> TRUE, value |-> h]

\* the inputs tried: whole amounts up to the bounds, the amounts of the
\* documented example (100, 2, 10 views, a limit of 110) and one half
PaymentTypes == {"FIXED", "PAY_PER_VIEW", "HYBRID", "OTHER"}

ViewCounts == 0..MaxViews \cup {10}

BasePays == {Whole(b) : b \in 0..MaxBasePay} \cup {1, Whole(100)}

Rates == {Whole(r) : r \in 0..MaxRate} \cup {1}

Limits == {NoLimit} \cup {Limit(Whole(l)) : l \in -1..MaxLimit}
            \cup {Limit(1), Limit(Whole(110))}

ClipPaymentInputs ==
  [views : ViewCounts, paymentType : PaymentTypes, basePay : BasePays,
   rewardPerView : Rates, limitPerClip : Limits]

NoInput ==
  [views |-> 0, paymentType |-> "none", basePay |-> 0, rewardPerView |-> 0,
   limitPerClip |-> NoLimit]

NoQuote == [input |-> NoInput, done |-> FALSE, result |-> 0]

\* a wrong calculation: the limit is applied to the views part only
CalculateClipPaymentLimitOnViews(input) ==
  LET perView == input.views * input.rewardPerView
      l == input.limitPerClip
      capped == IF l.set /\ l.value # 0 /\ l.value > 0 /\ perView > l.value
                  THEN l.value ELSE perView
  IN Round(CASE input.paymentType = "FIXED" -> input.basePay
             [] input.paymentType = "PAY_PER_VIEW" -> capped
             [] input.paymentType = "HYBRID" -> input.basePay + capped
             [] OTHER -> 0)

\* calculateClipPayment(input), in units
CalculateClipPayment(input) ==
  LET amount == CASE input.paymentType = "FIXED" -> input.basePay
                  [] input.paymentType = "PAY_PER_VIEW" ->
                       input.views * input.rewardPerView
                  [] input.paymentType = "HYBRID" ->
                       input.basePay + input.views * input.rewardPerView
                  [] OTHER -> 0
      l == input.limitPerClip
  IN Round(IF l.set /\ l.value # 0 /\ l.value > 0 /\ amount > l.value
             THEN l.value ELSE amount)

\* a caller calculates the payment of a clip
CalculateClipPaymentCall ==
  /\ quote.input # NoInput
  /\ ~quote.done
  /\ quote' = [quote EXCEPT !.done = TRUE,
                            !.result = CalculateClipPayment(quote.input)]
  /\ UNCHANGED <<balance, transactions, call, proc, base, last, leaderboard,
                 events, deliveries, hist, appConfig>>

\* PLATFORM_FEE_PERCENT: z.coerce.number().default(10)
DefaultFeePercent == 10

DefaultConfig == [platformFeePercent |-> DefaultFeePercent]

\* ------------------------------------------------ external collaborators
\* campaign-service (or the campaign cache): the fields the closure uses
NoData ==
  [campaignId |-> "none", createdBy |-> "none", totalBudget |-> 0,
   spentBudget |-> 0, isFunded |-> FALSE, enableLeaderboard |-> FALSE]

CampaignRecord(c) ==
  IF c = "c1" THEN [createdBy |-> "cr", totalBudget |-> 3, isFunded |-> TRUE]
  ELSE [createdBy |-> "cr", totalBudget |-> 2, isFunded |-> FALSE]

\* clip-service: the approved clips, in the order a fetch returns them
Clips == {"k1", "k2", "k3", "k4", "k5", "k6"}

Clip(k) ==
  CASE k = "k1" -> [id |-> "k1", userId |-> "e1", campaignId |-> "c1",
                    views |-> 2, likes |-> 1, engagement |-> 1]
    [] k = "k2" -> [id |-> "k2", userId |-> "e1", campaignId |-> "c2",
                    views |-> 1, likes |-> 1, engagement |-> 1]
    [] k = "k3" -> [id |-> "k3", userId |-> "e2", campaignId |-> "c1",
                    views |-> 1, likes |-> 2, engagement |-> 1]
    [] k = "k4" -> [id |-> "k4", userId |-> "e2", campaignId |-> "c2",
                    views |-> 30, likes |-> 5, engagement |-> 5]
    [] k = "k5" -> [id |-> "k5", userId |-> "e1", campaignId |-> "c2",
                    views |-> 30, likes |-> 10, engagement |-> 10]
    [] k = "k6" -> [id |-> "k6", userId |-> "e2", campaignId |-> "c2",
                    views |-> 5, likes |-> 30, engagement |-> 30]

ApprovedClips(c) == IF c = "c1" THEN <<"k1", "k3">> ELSE <<"k2">>

\* PrizeDistribution rows of a campaign, ordered by position
PrizeConfig(c) ==
  IF c = "c1"
    THEN <<[position |-> 1, reward |-> 1, label |-> "first"],
           [position |-> 3, reward |-> 1, label |-> "third"]>>
    ELSE <<[position |-> 2, reward |-> 1, label |-> "second"],
           [position |-> 3, reward |-> 2, label |-> "third"]>>

\* the events other services publish, and the payloads they may carry
ClipEvents == {"k1", "k2"}

EventIds == ClipEvents \cup {"end", "end2", "rej", "fund"}

NoPayload ==
  [kind |-> "none", clipId |-> "none", campaignId |-> "none", userId |-> "none",
   paymentAmount |-> 0, hasLeaderboard |-> FALSE, totalPaid |-> 0,
   amount |-> 0, fundedBy |-> "none"]

Payloads(e) ==
  IF e = "rej"
    THEN {[NoPayload EXCEPT !.kind = "clip.rejected", !.clipId = "k3",
                            !.campaignId = Clip("k3").campaignId,
                            !.userId = Clip("k3").userId]}
  ELSE IF e = "fund"
    THEN {[NoPayload EXCEPT !.kind = "campaign.funded", !.campaignId = "c1",
                            !.amount = CampaignRecord("c1").totalBudget,
                            !.fundedBy = CampaignRecord("c1").createdBy]}
  ELSE IF e \in ClipEvents
    THEN {[NoPayload EXCEPT !.kind = "clip.approved", !.clipId = e,
                            !.campaignId = Clip(e).campaignId,
                            !.userId = Clip(e).userId,
                            !.paymentAmount = IF e = "k2" THEN 2 ELSE 1]}
    ELSE {[NoPayload EXCEPT !.kind = "campaign.ended", !.campaignId = "c1",
                            !.hasLeaderboard = h, !.totalPaid = t] :
            h \in BOOLEAN, t \in {1, 3}}
         \cup {[NoPayload EXCEPT !.kind = "campaign.ended", !.campaignId = "c2",
                                 !.totalPaid = 1]}

\* ------------------------------------------------------ a worker's frame
NoProc ==
  [kind |-> "idle", pc |-> "none", ev |-> "none", campaignData |-> NoData,
   entries |-> <<>>, idx |-> 0, distributed |-> <<>>,
   pendingByEditor |-> <<>>, releasedByEditor |-> <<>>, releases |-> <<>>,
   clips |-> <<>>, payments |-> <<>>, results |-> <<>>, audit |-> "none"]

Idle == NoProc

AllIdle == \A w \in Workers : proc[w].kind = "idle"

Payload(w) == events[proc[w].ev].payload

\* a wrong catch: the event is acknowledged instead
RequeueAcks(w) ==
  /\ events' = [events EXCEPT ![proc[w].ev].status = "acked",
                              ![proc[w].ev].acks = @ + 1]
  /\ proc' = [proc EXCEPT ![w] = Idle]

\* ctx.nack(true) as the handler's last call: the event is delivered again
Requeue(w) ==
  /\ events' = [events EXCEPT ![proc[w].ev].status = "queued",
                              ![proc[w].ev].nacks = @ + 1]
  /\ proc' = [proc EXCEPT ![w] = Idle]

\* an error leaves the handler, which has no catch around the failing call,
\* and reaches the retry wrapper: the event is delivered again
Throw(w) ==
  /\ events' = [events EXCEPT ![proc[w].ev].status = "queued"]
  /\ proc' = [proc EXCEPT ![w] = Idle]

\* ctx.ack() as the handler's last call
Ack(w) ==
  /\ events' = [events EXCEPT ![proc[w].ev].status = "acked",
                              ![proc[w].ev].acks = @ + 1]
  /\ proc' = [proc EXCEPT ![w] = Idle]

\* an event handed to a handler, which has called neither ack nor nack yet
Inflight(p) == [status |-> "inflight", payload |-> p, acks |-> 0, nacks |-> 0]

Deliverable(e) ==
  /\ events[e].status \in {"new", "queued"}
  /\ deliveries < MaxDeliveries
  /\ AllIdle

\* the payload of a delivery: chosen by the publisher for the first one,
\* the same again for a redelivery
Delivered(e) ==
  IF events[e].status = "new" THEN Payloads(e) ELSE {events[e].payload}

\* --------------------------------------------------- prizeService.ts
NoEntry ==
  [exists |-> FALSE, campaignId |-> "none", editorId |-> "none",
   submissionId |-> "none", score |-> 0, rank |-> 0]

Metrics == {"VIEWS", "LIKES", "ENGAGEMENT"}

Score(k, metric) ==
  CASE metric = "VIEWS" -> Clip(k).views
    [] metric = "LIKES" -> Clip(k).likes
    [] metric = "ENGAGEMENT" -> Clip(k).engagement

\* index + 1 of clips[i] after scored.sort((a, b) => b.score - a.score),
\* which is stable
SortedRank(clips, i, metric) ==
  1 + Cardinality({j \in 1..Len(clips) :
                     Score(clips[j], metric) > Score(clips[i], metric)})
    + Cardinality({j \in 1..(i - 1) :
                     Score(clips[j], metric) = Score(clips[i], metric)})

\* calculateLeaderboard(campaignId, metric)
CalculateLeaderboard(c, metric) ==
  /\ AllIdle
  /\ LET clips == ApprovedClips(c) IN
       leaderboard' = [k \in Clips |->
         IF \E i \in 1..Len(clips) : clips[i] = k
           THEN LET i == CHOOSE i \in 1..Len(clips) : clips[i] = k IN
                  [exists |-> TRUE, campaignId |-> c, editorId |-> Clip(k).userId,
                   submissionId |-> k, score |-> Score(k, metric),
                   rank |-> SortedRank(clips, i, metric)]
           ELSE leaderboard[k]]
  /\ leaderboard' # leaderboard
  /\ UNCHANGED <<balance, transactions, call, proc, base, last, quote, appConfig, events,
                 deliveries, hist>>

\* the clips of a campaign in the order they were submitted, and the values
\* the metric of each may have when the approved clips are fetched
Submissions(c) ==
  IF c = "c1" THEN <<"k1", "k3">> ELSE <<"k2", "k4", "k5", "k6">>

ScoresAt(k) ==
  CASE k = "k2" -> {10, 30}
    [] k = "k4" -> {30, 5}
    [] k = "k5" -> {30, 10}
    [] k = "k6" -> {5, 30}
    [] OTHER -> {1, 2}

\* what fetchApprovedClips may return for a campaign, already scored: any of
\* its clips, approved at the time, in submission order
Fetches(c) ==
  LET all == {Submissions(c)[i] : i \in 1..Len(Submissions(c))}
      listed(S) == SelectSeq(Submissions(c), LAMBDA k : k \in S)
  IN UNION {{[i \in 1..Cardinality(S) |->
                [id |-> listed(S)[i], userId |-> Clip(listed(S)[i]).userId,
                 score |-> sc[listed(S)[i]]]] :
              sc \in {f \in [S -> UNION {ScoresAt(k) : k \in S}] :
                         \A k \in S : f[k] \in ScoresAt(k)}} :
            S \in SUBSET all \ {{}}}

\* a wrong rank: clips of equal score are given the same rank
RankInShared(scored, i) ==
  1 + Cardinality({j \in 1..Len(scored) : scored[j].score > scored[i].score})

\* index + 1 of scored[i] after scored.sort((a, b) => b.score - a.score),
\* which is stable
RankIn(scored, i) ==
  1 + Cardinality({j \in 1..Len(scored) : scored[j].score > scored[i].score})
    + Cardinality({j \in 1..(i - 1) : scored[j].score = scored[i].score})

\* calculateLeaderboard on a given fetch: the upserts by submissionId
CalculateLeaderboardOn(c, scored) ==
  /\ AllIdle
  /\ leaderboard' = [k \in Clips |->
       IF \E i \in 1..Len(scored) : scored[i].id = k
         THEN LET i == CHOOSE i \in 1..Len(scored) : scored[i].id = k IN
                IF leaderboard[k].exists
                  THEN [leaderboard[k] EXCEPT !.score = scored[i].score,
                                              !.rank = RankIn(scored, i)]
                  ELSE [exists |-> TRUE, campaignId |-> c,
                        editorId |-> scored[i].userId, submissionId |-> k,
                        score |-> scored[i].score, rank |-> RankIn(scored, i)]
         ELSE leaderboard[k]]
  /\ leaderboard' # leaderboard
  /\ UNCHANGED <<balance, transactions, call, proc, base, last, quote, appConfig, events,
                 deliveries, hist>>

EntriesOf(c) ==
  {k \in Clips : leaderboard[k].exists /\ leaderboard[k].campaignId = c}

Orders(S) ==
  {o \in [1..Cardinality(S) -> S] :
     \A i \in DOMAIN o : \A j \in DOMAIN o : i # j => o[i] # o[j]}

\* a wrong order: the entries are read by their old rank
ByOldRank(c) ==
  {o \in Orders(EntriesOf(c)) :
     \A i \in 1..(Len(o) - 1) : leaderboard[o[i]].rank <= leaderboard[o[i + 1]].rank}

\* findMany({ where: { campaignId }, orderBy: { score: 'desc' } }): entries
\* of equal score come in an order the database chooses
ByScoreDesc(c) ==
  {o \in Orders(EntriesOf(c)) :
     \A i \in 1..(Len(o) - 1) : leaderboard[o[i]].score >= leaderboard[o[i + 1]].score}

\* findMany({ where: { campaignId }, orderBy: { rank: 'asc' } })
ByRankAsc(c) ==
  {o \in Orders(EntriesOf(c)) :
     \A i \in 1..(Len(o) - 1) : leaderboard[o[i]].rank <= leaderboard[o[i + 1]].rank}

\* a wrong lookup: the entry is taken by its place in the list
FindRankByIndex(entries, position) ==
  IF position <= Len(entries) THEN position ELSE 0

\* leaderboard.find((e) => e.rank === prize.position): index of the first
\* such entry, 0 when there is none
FindRank(entries, position) ==
  IF \E i \in 1..Len(entries) : entries[i].rank = position
    THEN CHOOSE i \in 1..Len(entries) :
           /\ entries[i].rank = position
           /\ \A j \in 1..(i - 1) : entries[j].rank # position
    ELSE 0

\* ------------------------------------------------ campaignClosure.ts
\* the Map built by the two aggregation loops: userId -> summed amount, in
\* insertion order
RECURSIVE Aggregate(_)
Aggregate(rows) ==
  IF rows = <<>> THEN <<>>
  ELSE LET m == Aggregate(SubSeq(rows, 1, Len(rows) - 1))
           t == rows[Len(rows)]
       IN IF \E i \in 1..Len(m) : m[i].userId = t.userId
            THEN [i \in 1..Len(m) |->
                    IF m[i].userId = t.userId
                      THEN [m[i] EXCEPT !.amount = @ + t.amount] ELSE m[i]]
            ELSE Append(m, [userId |-> t.userId, amount |-> t.amount])

\* map.get(userId) ?? 0
MapGet(m, u) ==
  IF \E i \in 1..Len(m) : m[i].userId = u
    THEN m[CHOOSE i \in 1..Len(m) : m[i].userId = u].amount
    ELSE 0

\* transaction.findMany({ where: { campaignId, type } })
RowsOf(log, c, type) ==
  SelectSeq(log, LAMBDA t : t.campaignId = c /\ t.type = type)

\* a wrong closure: the already-released payouts are not looked up
ExistingPayoutsNone(log, c) == <<>>

ExistingPayouts(log, c) == RowsOf(log, c, "PAYOUT")

PendingTransactions(log, c) == RowsOf(log, c, "RESERVATION")

\* the stages of a closure run whose ledger is remembered
NoRun ==
  [stage |-> "none", begin |-> EmptyLedger, s2begin |-> EmptyLedger,
   s2end |-> EmptyLedger, after |-> EmptyLedger,
   boardBegin |-> <<>>, boardAfter |-> <<>>,
   campaignId |-> "none", processed |-> 0, total |-> 0]

Finished(run) == run.stage \in {"completed", "failed"}

\* --------------------------------------------------- middleware/auditLog
\* a wrong logAudit: without the catch, a failure of the sink is raised
LogAuditRethrows(stored) ==
  [raised |-> ~stored, audit |-> IF stored THEN "written" ELSE "failed"]

\* logAudit: auditLog.create inside a try whose catch only logs; the call
\* resolves whether the record was stored or not
LogAudit(stored) ==
  [raised |-> FALSE, audit |-> IF stored THEN "written" ELSE "failed"]

\* ------------------------------- handlers.ts and clipApproval: clip.approved
sagaFrame == <<balance, transactions, base, last, quote, appConfig, leaderboard, deliveries, hist>>

\* the consumer hands the event to the handler, which calls handleClipApproved,
\* whose first statement is the reserveFunds call
DeliverClipApproved(w, e) ==
  /\ e \in ClipEvents
  /\ Deliverable(e)
  /\ \E p \in Delivered(e) :
       /\ events' = [events EXCEPT ![e] = Inflight(p)]
       /\ call' = [call EXCEPT ![w] =
            Enter("reserveFunds", p.userId, p.paymentAmount, p.campaignId, p.clipId)]
  /\ proc' = [proc EXCEPT ![w] =
       [Idle EXCEPT !.kind = "clip.approved", !.pc = "reserve", !.ev = e]]
  /\ deliveries' = deliveries + 1
  /\ UNCHANGED <<balance, transactions, base, last, quote, appConfig, leaderboard, hist>>

\* reserveFunds returned, or threw: the saga's catch logs and rethrows, and
\* the handler has no catch
ClipReserved(w) ==
  /\ proc[w].kind = "clip.approved"
  /\ proc[w].pc = "reserve"
  /\ call[w].pc = "returned"
  /\ call' = [call EXCEPT ![w] = NoCall]
  /\ IF call[w].result = "ok"
       THEN proc' = [proc EXCEPT ![w].pc = "publish"] /\ UNCHANGED events
       ELSE Throw(w)
  /\ UNCHANGED sagaFrame

\* publisher.publish(PaymentEvents.reserved(...)), then logAudit, which
\* swallows its own failure
ClipPublish(w) ==
  /\ proc[w].kind = "clip.approved"
  /\ proc[w].pc = "publish"
  /\ \E delivered \in BOOLEAN, stored \in BOOLEAN :
       IF delivered /\ ~LogAudit(stored).raised
         THEN /\ proc' = [proc EXCEPT ![w] =
                   [@ EXCEPT !.pc = "ack", !.audit = LogAudit(stored).audit]]
              /\ UNCHANGED events
         ELSE Throw(w)
  /\ UNCHANGED <<call, sagaFrame>>

ClipAck(w) ==
  /\ proc[w].kind = "clip.approved"
  /\ proc[w].pc = "ack"
  /\ Ack(w)
  /\ UNCHANGED <<call, sagaFrame>>

\* ------------------------------------------------ handlers.ts: clip.rejected
\* the handler logs the rejection; its only call is the ack
DeliverClipRejected(w, e) ==
  /\ e = "rej"
  /\ Deliverable(e)
  /\ \E p \in Delivered(e) : events' = [events EXCEPT ![e] = Inflight(p)]
  /\ proc' = [proc EXCEPT ![w] =
       [Idle EXCEPT !.kind = "clip.rejected", !.pc = "ack", !.ev = e]]
  /\ deliveries' = deliveries + 1
  /\ UNCHANGED <<balance, transactions, call, base, last, quote, appConfig, leaderboard, hist>>

ClipRejectedAck(w) ==
  /\ proc[w].kind = "clip.rejected"
  /\ proc[w].pc = "ack"
  /\ Ack(w)
  /\ UNCHANGED <<call, sagaFrame>>

\* ---------------------------------------------- handlers.ts: campaign.funded
DeliverCampaignFunded(w, e) ==
  /\ e = "fund"
  /\ Deliverable(e)
  /\ \E p \in Delivered(e) : events' = [events EXCEPT ![e] = Inflight(p)]
  /\ proc' = [proc EXCEPT ![w] =
       [Idle EXCEPT !.kind = "campaign.funded", !.pc = "create", !.ev = e]]
  /\ deliveries' = deliveries + 1
  /\ UNCHANGED <<balance, transactions, call, base, last, quote, appConfig, leaderboard, hist>>

\* prisma.transaction.create of the FUNDING row, then logAudit, which swallows
\* its own failure; a failed create leaves the handler as an error
FundedCreate(w) ==
  /\ proc[w].kind = "campaign.funded"
  /\ proc[w].pc = "create"
  /\ \E stored \in BOOLEAN, audited \in BOOLEAN :
       IF stored
         THEN /\ transactions' = CreateTransaction(transactions,
                   TxRow(Payload(w).fundedBy, Payload(w).campaignId,
                         Payload(w).amount, "FUNDING", "funding"))
              /\ IF LogAudit(audited).raised
                   THEN Throw(w)
                   ELSE /\ proc' = [proc EXCEPT ![w] =
                             [@ EXCEPT !.pc = "sync",
                                       !.audit = LogAudit(audited).audit]]
                        /\ UNCHANGED events
         ELSE Throw(w) /\ UNCHANGED transactions
  /\ UNCHANGED <<balance, call, base, last, quote, appConfig, leaderboard, deliveries, hist>>

\* syncCampaignCache(campaignId, { isFunded: true }): a failure leaves the
\* handler as an error
FundedSync(w) ==
  /\ proc[w].kind = "campaign.funded"
  /\ proc[w].pc = "sync"
  /\ \E synced \in BOOLEAN :
       IF synced
         THEN proc' = [proc EXCEPT ![w].pc = "ack"] /\ UNCHANGED events
         ELSE Throw(w)
  /\ UNCHANGED <<call, sagaFrame>>

FundedAck(w) ==
  /\ proc[w].kind = "campaign.funded"
  /\ proc[w].pc = "ack"
  /\ Ack(w)
  /\ UNCHANGED <<call, sagaFrame>>

\* ----------------------------- handlers.ts and campaignClosure: campaign.ended
closureFrame == <<balance, transactions, base, last, quote, appConfig, deliveries>>

At(w, pc) == proc[w].kind \in {"campaign.ended", "step1"} /\ proc[w].pc = pc

DeliverCampaignEnded(w, e) ==
  /\ e = "end"
  /\ Deliverable(e)
  /\ \E p \in Delivered(e) :
       events' = [events EXCEPT ![e] = Inflight(p)]
  /\ proc' = [proc EXCEPT ![w] =
       [Idle EXCEPT !.kind = "campaign.ended", !.pc = "fetch", !.ev = e]]
  /\ deliveries' = deliveries + 1
  /\ UNCHANGED <<balance, transactions, call, base, last, quote, appConfig, leaderboard, hist>>

\* the campaign.ended event of a campaign is published a second time, and
\* another worker takes the second event while the handler of the first has
\* only begun: the two handlers run side by side
DeliverDuplicate(w, e) ==
  /\ e = "end2"
  /\ events[e].status \in {"new", "queued"}
  /\ deliveries < MaxDeliveries
  /\ proc[w].kind = "idle"
  /\ \E v \in Workers \ {w} :
       /\ proc[v].kind = "campaign.ended"
       /\ proc[v].pc = "fetch"
       /\ events' = [events EXCEPT ![e] = Inflight(Payload(v))]
  /\ proc' = [proc EXCEPT ![w] =
       [Idle EXCEPT !.kind = "campaign.ended", !.pc = "fetch", !.ev = e]]
  /\ base' = Ledger
  /\ deliveries' = deliveries + 1
  /\ UNCHANGED <<balance, transactions, call, last, quote, appConfig, leaderboard, hist>>

\* a wrong test: step 1 is run for every campaign
FirstStepAlwaysBoard(enableLeaderboard) == "finalize"

\* if (campaignData.enableLeaderboard || campaignData.hasLeaderboard): step 1,
\* else straight to step 2
FirstStep(enableLeaderboard) ==
  IF enableLeaderboard THEN "finalize" ELSE "reservations"

\* getCampaignFromCache, else campaignClient.get: without campaign data the
\* handler nacks; with it handleCampaignEnded starts
EndedFetch(w) ==
  /\ At(w, "fetch")
  /\ \E found \in BOOLEAN :
       IF found
         THEN LET p == Payload(w)
                  r == CampaignRecord(p.campaignId)
              IN /\ proc' = [proc EXCEPT ![w] =
                      [@ EXCEPT !.campaignData =
                                  [campaignId |-> p.campaignId,
                                   createdBy |-> r.createdBy,
                                   totalBudget |-> r.totalBudget,
                                   spentBudget |-> p.totalPaid,
                                   isFunded |-> r.isFunded,
                                   enableLeaderboard |-> p.hasLeaderboard],
                                !.pc = FirstStep(p.hasLeaderboard)]]
                 /\ hist' = [prev |-> hist.cur,
                             cur |-> [NoRun EXCEPT !.stage = "started",
                                                   !.begin = Ledger,
                                                   !.boardBegin = leaderboard]]
                 /\ UNCHANGED events
         ELSE Requeue(w) /\ UNCHANGED hist
  /\ UNCHANGED <<call, closureFrame, leaderboard>>

\* finalizeLeaderboard: the findMany
Finalize(w) ==
  /\ At(w, "finalize")
  /\ \E o \in ByScoreDesc(proc[w].campaignData.campaignId) :
       proc' = [proc EXCEPT ![w] =
         [@ EXCEPT !.entries = [i \in 1..Len(o) |-> leaderboard[o[i]]], !.idx = 1,
                   !.pc = IF Len(o) = 0 THEN "prizeConfig" ELSE "rerank"]]
  /\ UNCHANGED <<call, closureFrame, leaderboard, events, hist>>

\* a wrong rank: entries of equal score are given the same rank
NewRankShared(entries, idx) ==
  1 + Cardinality({j \in 1..Len(entries) : entries[j].score > entries[idx].score})

\* data: { rank: i + 1 } for entries[i], counted from 0 in the code and from
\* 1 here
NewRank(entries, idx) == idx

\* finalizeLeaderboard: one update of the loop
Rerank(w) ==
  /\ At(w, "rerank")
  /\ LET f == proc[w] IN
       /\ leaderboard' = [leaderboard EXCEPT ![f.entries[f.idx].submissionId].rank =
                                               NewRank(f.entries, f.idx)]
       /\ proc' = [proc EXCEPT ![w] =
            [@ EXCEPT !.idx = f.idx + 1,
                      !.pc = IF f.idx = Len(f.entries) THEN "prizeConfig"
                             ELSE "rerank"]]
  /\ UNCHANGED <<call, closureFrame, events, hist>>

\* distributePrizes: the prize configuration and, unless it is empty, the
\* leaderboard ordered by rank
PrizeBoard(w) ==
  /\ At(w, "prizeConfig")
  /\ LET c == proc[w].campaignData.campaignId IN
       IF Len(PrizeConfig(c)) = 0
         THEN proc' = [proc EXCEPT ![w].pc = "reservations"]
         ELSE \E o \in ByRankAsc(c) :
                proc' = [proc EXCEPT ![w] =
                  [@ EXCEPT !.entries = [i \in 1..Len(o) |-> leaderboard[o[i]]],
                            !.idx = 1, !.pc = "prize"]]
  /\ UNCHANGED <<call, closureFrame, leaderboard, events, hist>>

\* distributePrizes: one turn of the loop over the configured prizes, up to
\* the reserveFunds call
Prize(w) ==
  /\ At(w, "prize")
  /\ LET f == proc[w]
         config == PrizeConfig(f.campaignData.campaignId)
     IN IF f.idx > Len(config)
          THEN proc' = [proc EXCEPT ![w].pc = "reservations"] /\ UNCHANGED call
        ELSE LET prize == config[f.idx]
                 at == FindRank(f.entries, prize.position)
             IN IF at = 0
                  THEN /\ proc' = [proc EXCEPT ![w].idx = f.idx + 1]
                       /\ UNCHANGED call
                  ELSE /\ proc' = [proc EXCEPT ![w].pc = "prizeReserved"]
                       /\ call' = [call EXCEPT ![w] =
                            Enter("reserveFunds", f.entries[at].editorId,
                                  prize.reward, f.campaignData.campaignId, "prize")]
  /\ UNCHANGED <<closureFrame, leaderboard, events, hist>>

\* reserveFunds returned, or threw into the catch of the loop body
PrizeReserved(w) ==
  /\ At(w, "prizeReserved")
  /\ call[w].pc = "returned"
  /\ call' = [call EXCEPT ![w] = NoCall]
  /\ proc' = [proc EXCEPT ![w] =
       IF call[w].result = "ok" THEN [@ EXCEPT !.pc = "prizePublish"]
       ELSE [@ EXCEPT !.idx = @ + 1, !.pc = "prize"]]
  /\ UNCHANGED <<closureFrame, leaderboard, events, hist>>

\* publisher.publish(PaymentEvents.prizeDistributed(...)) and distributed.push,
\* or the catch of the loop body
PrizePublish(w) ==
  /\ At(w, "prizePublish")
  /\ LET f == proc[w]
         prize == PrizeConfig(f.campaignData.campaignId)[f.idx]
         record == [position |-> prize.position,
                    editorId |-> f.entries[FindRank(f.entries, prize.position)].editorId,
                    amount |-> prize.reward, label |-> prize.label]
     IN \E delivered \in BOOLEAN :
          proc' = [proc EXCEPT ![w] =
            [@ EXCEPT !.idx = @ + 1, !.pc = "prize",
                      !.distributed = IF delivered THEN Append(@, record) ELSE @]]
  /\ UNCHANGED <<call, closureFrame, leaderboard, events, hist>>

\* step 2: the RESERVATION rows of the campaign, summed per editor
Reservations(w) ==
  /\ At(w, "reservations")
  /\ proc' = [proc EXCEPT ![w] =
       [@ EXCEPT !.pendingByEditor =
                   Aggregate(PendingTransactions(transactions,
                                                 proc[w].campaignData.campaignId)),
                 !.pc = "payouts"]]
  /\ hist' = [hist EXCEPT !.cur.stage = "step2", !.cur.s2begin = Ledger]
  /\ UNCHANGED <<call, closureFrame, leaderboard, events>>

\* step 2: the PAYOUT rows of the campaign, summed per editor
Payouts(w) ==
  /\ At(w, "payouts")
  /\ proc' = [proc EXCEPT ![w] =
       [@ EXCEPT !.releasedByEditor =
                   Aggregate(ExistingPayouts(transactions,
                                             proc[w].campaignData.campaignId)),
                 !.idx = 1, !.pc = "release"]]
  /\ UNCHANGED <<call, closureFrame, leaderboard, events, hist>>

\* a wrong remainder: what was already released is not subtracted
RemainingWhole(entry, releasedByEditor) == entry.amount

\* pendingAmount - alreadyReleased of an entry of pendingByEditor
Remaining(entry, releasedByEditor) ==
  entry.amount - MapGet(releasedByEditor, entry.userId)

\* step 2: one turn of the loop over pendingByEditor, up to the
\* releasePending call, which is noted in releases; after the last turn
\* step 2 is over
Release(w) ==
  /\ At(w, "release")
  /\ LET f == proc[w] IN
       IF f.idx > Len(f.pendingByEditor)
         THEN /\ proc' = [proc EXCEPT ![w].pc = "refund"]
              /\ hist' = [hist EXCEPT !.cur.stage = "step2done", !.cur.s2end = Ledger]
              /\ UNCHANGED call
       ELSE LET entry == f.pendingByEditor[f.idx]
                remaining == Remaining(entry, f.releasedByEditor)
            IN /\ IF remaining > 0
                    THEN /\ proc' = [proc EXCEPT ![w] =
                              [@ EXCEPT !.pc = "released",
                                        !.releases = Append(@,
                                          [userId |-> entry.userId,
                                           amount |-> remaining])]]
                         /\ call' = [call EXCEPT ![w] =
                              Enter("releasePending", entry.userId, remaining,
                                    f.campaignData.campaignId, "closure")]
                    ELSE /\ proc' = [proc EXCEPT ![w].idx = f.idx + 1]
                         /\ UNCHANGED call
               /\ UNCHANGED hist
  /\ UNCHANGED <<closureFrame, leaderboard, events>>

\* a wrong loop body: without the catch, a failed release ends the saga
ReleasedRethrows(w) ==
  /\ At(w, "released")
  /\ call[w].pc = "returned"
  /\ call' = [call EXCEPT ![w] = NoCall]
  /\ IF call[w].result = "ok"
       THEN /\ proc' = [proc EXCEPT ![w] = [@ EXCEPT !.idx = @ + 1, !.pc = "release"]]
            /\ UNCHANGED <<events, hist>>
       ELSE /\ Requeue(w)
            /\ hist' = [hist EXCEPT !.cur.stage = "failed", !.cur.after = Ledger,
                                   !.cur.boardAfter = leaderboard]
  /\ UNCHANGED <<closureFrame, leaderboard>>

\* releasePending returned, or threw into the catch of the loop body
Released(w) ==
  /\ At(w, "released")
  /\ call[w].pc = "returned"
  /\ call' = [call EXCEPT ![w] = NoCall]
  /\ proc' = [proc EXCEPT ![w] = [@ EXCEPT !.idx = @ + 1, !.pc = "release"]]
  /\ UNCHANGED <<closureFrame, leaderboard, events, hist>>

\* a wrong condition: an unfunded campaign is refunded too
RefundDueUnfunded(d) == d.totalBudget - d.spentBudget > 0

\* if (remainingBudget > 0 && data.isFunded)
RefundDue(d) == d.totalBudget - d.spentBudget > 0 /\ d.isFunded

\* step 4: the audit record, and the return to the handler; an error that
\* logAudit raised would reach the saga's catch, which rethrows, and the
\* handler's catch, which nacks
AuditClosure(w) ==
  \E stored \in BOOLEAN :
    IF LogAudit(stored).raised
      THEN /\ Requeue(w)
           /\ hist' = [hist EXCEPT !.cur.stage = "failed", !.cur.after = Ledger,
                                  !.cur.boardAfter = leaderboard]
      ELSE /\ proc' = [proc EXCEPT ![w] =
                [@ EXCEPT !.pc = "sync", !.audit = LogAudit(stored).audit]]
           /\ hist' = [hist EXCEPT !.cur.stage = "completed", !.cur.after = Ledger,
                                  !.cur.boardAfter = leaderboard]
           /\ UNCHANGED events

\* step 3: the refund of the unused budget, or straight on to step 4
Refund(w) ==
  /\ At(w, "refund")
  /\ LET d == proc[w].campaignData
         remainingBudget == d.totalBudget - d.spentBudget
     IN IF RefundDue(d)
          THEN /\ proc' = [proc EXCEPT ![w].pc = "refunded"]
               /\ call' = [call EXCEPT ![w] =
                    Enter("refundToCreator", d.createdBy, remainingBudget,
                          d.campaignId, "refund")]
               /\ UNCHANGED <<hist, events>>
          ELSE /\ AuditClosure(w)
               /\ UNCHANGED call
  /\ UNCHANGED <<closureFrame, leaderboard>>

\* refundToCreator returned, and step 4 follows; or it threw: the saga's
\* catch rethrows and the handler's catch nacks
Refunded(w) ==
  /\ At(w, "refunded")
  /\ call[w].pc = "returned"
  /\ call' = [call EXCEPT ![w] = NoCall]
  /\ IF call[w].result = "ok"
       THEN AuditClosure(w)
       ELSE /\ Requeue(w)
            /\ hist' = [hist EXCEPT !.cur.stage = "failed", !.cur.after = Ledger,
                                   !.cur.boardAfter = leaderboard]
  /\ UNCHANGED <<closureFrame, leaderboard>>

\* syncCampaignCache(campaignId, { status: 'ENDED' }): a failure is caught
\* by the handler, which nacks
SyncCache(w) ==
  /\ At(w, "sync")
  /\ \E synced \in BOOLEAN :
       IF synced
         THEN proc' = [proc EXCEPT ![w].pc = "ack"] /\ UNCHANGED events
         ELSE Requeue(w)
  /\ UNCHANGED <<call, closureFrame, leaderboard, hist>>

EndedAck(w) ==
  /\ At(w, "ack")
  /\ Ack(w)
  /\ UNCHANGED <<call, closureFrame, leaderboard, hist>>

\* ------------------------------- payoutService.ts: the campaign's payments
\* JavaScript numbers are IEEE 754 binary64 values.  A positive one is held
\* here as its significand, a sequence of binary digits with the most
\* significant first, and the number of those digits behind the binary point.
Significand == 53

RECURSIVE Pow2(_)
Pow2(n) == IF n = 0 THEN 1 ELSE 2 * Pow2(n - 1)

\* 2^n modulo d, by squaring
RECURSIVE Pow2Mod(_, _)
Pow2Mod(n, d) ==
  IF n = 0 THEN 1 % d
  ELSE LET h == Pow2Mod(n \div 2, d)
       IN (h * h * (IF n % 2 = 1 THEN 2 ELSE 1)) % d

\* what is left of r, for 0 <= r < d, after n binary digits of r / d behind
\* the point
QuotientRest(r, d, n) == (r * Pow2Mod(n, d)) % d

\* the first n binary digits of r / d behind the point
QuotientBits(r, d, n) ==
  [i \in 1..n |-> IF 2 * QuotientRest(r, d, i - 1) >= d THEN 1 ELSE 0]

\* the number of zeros that r / d has behind the point before its first one
RECURSIVE LeadingZeros(_, _)
LeadingZeros(r, d) == IF 2 * r >= d THEN 0 ELSE 1 + LeadingZeros(2 * r, d)

\* the digits of the number one larger
Increment(bits) ==
  LET zeros == {i \in 1..Len(bits) : bits[i] = 0} IN
    IF zeros = {} THEN <<1>> \o [i \in 1..Len(bits) |-> 0]
    ELSE LET k == CHOOSE i \in zeros : \A j \in zeros : j <= i
         IN [i \in 1..Len(bits) |->
               IF i < k THEN bits[i] ELSE IF i = k THEN 1 ELSE 0]

\* round to nearest, ties to even: the 53 digits the result keeps and the
\* number of low digits dropped; rest tells that digits beyond bits, not all
\* zero, follow
Nearest(bits, rest) ==
  IF Len(bits) <= Significand THEN [sig |-> bits, shift |-> 0]
  ELSE LET keep == SubSeq(bits, 1, Significand)
           guard == bits[Significand + 1]
           sticky == rest \/ \E i \in (Significand + 2)..Len(bits) : bits[i] = 1
           up == guard = 1 /\ (sticky \/ keep[Significand] = 1)
           r == IF up THEN Increment(keep) ELSE keep
       IN IF Len(r) > Significand
            THEN [sig |-> SubSeq(r, 1, Significand),
                  shift |-> Len(bits) - Significand + 1]
            ELSE [sig |-> r, shift |-> Len(bits) - Significand]

RECURSIVE BitsOf(_)
BitsOf(n) == IF n = 0 THEN <<>> ELSE Append(BitsOf(n \div 2), n % 2)

\* the number whose digits are the first n of bits
RECURSIVE ToInt(_, _)
ToInt(bits, n) == IF n = 0 THEN 0 ELSE 2 * ToInt(bits, n - 1) + bits[n]

\* digits are multiplied in groups of 15, counted from the lowest: the
\* number that the digits of group k of bits make
LimbBits == 15

Limb(bits, k) ==
  LET hi == Len(bits) - LimbBits * k
      lo == IF hi - LimbBits + 1 < 1 THEN 1 ELSE hi - LimbBits + 1
  IN IF hi < 1 THEN 0 ELSE ToInt(SubSeq(bits, lo, hi), hi - lo + 1)

\* the carry into group k when bits is multiplied by g
RECURSIVE Carry(_, _, _)
Carry(bits, g, k) ==
  IF k = 0 THEN 0
  ELSE (Limb(bits, k - 1) * g + Carry(bits, g, k - 1)) \div Pow2(LimbBits)

\* the digits of bits times g, exactly, without leading zeros
Times(bits, g) ==
  LET groups == (Len(bits) + LimbBits - 1) \div LimbBits
      n == LimbBits * groups
      digit(j) == \* the digit of weight 2^j of the product, j < n
        (((Limb(bits, j \div LimbBits) * g + Carry(bits, g, j \div LimbBits))
            % Pow2(LimbBits)) \div Pow2(j % LimbBits)) % 2
      all == BitsOf(Carry(bits, g, groups)) \o [i \in 1..n |-> digit(n - i)]
      first == CHOOSE i \in 1..Len(all) :
                 all[i] = 1 /\ \A j \in 1..(i - 1) : all[j] = 0
  IN SubSeq(all, first, Len(all))

\* the fee as the spec states it: gross * feePercent / 100 to the nearest
\* unit, a half going up
PlatformFeeExact(grossAmount, feePercent) ==
  (2 * grossAmount * feePercent + 100) \div 200

\* Math.round(grossAmount * (feePercent / 100)) for whole numbers
\* grossAmount >= 0 and 0 <= feePercent <= 100: the quotient is rounded to a
\* binary64 value, then the product is, then Math.round takes the nearest
\* whole number, a half going up
PlatformFee(grossAmount, feePercent) ==
  IF grossAmount = 0 \/ feePercent = 0 THEN 0
  ELSE IF feePercent = 100 THEN grossAmount
  ELSE LET z == LeadingZeros(feePercent, 100)
           r == feePercent * Pow2(z)
           q == Nearest(QuotientBits(r, 100, Significand + 1),
                        QuotientRest(r, 100, Significand + 1) # 0)
           fraction == z + Significand + 1 - q.shift
           product == Nearest(Times(q.sig, grossAmount), FALSE)
           places == fraction - product.shift
           whole == Len(product.sig) - places
       IN (IF whole > 0 THEN ToInt(product.sig, whole) ELSE 0)
            + (IF whole >= 0 THEN product.sig[whole + 1] ELSE 0)

\* the fee percentages a process may be configured with
FeePercents == {0, DefaultFeePercent, 29, 50, 100}

\* fetchCampaignData: the payment configuration of a campaign
PaymentConfig(c) ==
  IF c = "c1"
    THEN [paymentType |-> "PAY_PER_VIEW", basePay |-> 0,
          rewardPerView |-> Whole(1), limitPerClip |-> NoLimit]
    ELSE [paymentType |-> "FIXED", basePay |-> Whole(50),
          rewardPerView |-> 0, limitPerClip |-> NoLimit]

\* the grossAmount of one clip
GrossAmount(campaign, k) ==
  CalculateClipPayment(
    [views |-> Clip(k).views, paymentType |-> campaign.paymentType,
     basePay |-> campaign.basePay, rewardPerView |-> campaign.rewardPerView,
     limitPerClip |-> campaign.limitPerClip])

\* the platformFee of every gross amount of these campaigns under every fee
\* percentage
PlatformFees ==
  [grossAmount \in UNION {{GrossAmount(PaymentConfig(c), ApprovedClips(c)[i]) :
                              i \in DOMAIN ApprovedClips(c)} : c \in Campaigns},
   feePercent \in FeePercents |-> PlatformFee(grossAmount, feePercent)]

\* the EditorPayment of one clip
EditorPayment(campaign, k, feePercent) ==
  LET grossAmount == GrossAmount(campaign, k)
      platformFee == PlatformFees[grossAmount, feePercent]
  IN [editorId |-> Clip(k).userId, clipId |-> k, views |-> Clip(k).views,
      grossAmount |-> grossAmount, platformFee |-> platformFee,
      netAmount |-> grossAmount - platformFee]

\* clips.map(...) of calculateCampaignPayments
CampaignPayments(campaign, clips, feePercent) ==
  [i \in 1..Len(clips) |-> EditorPayment(campaign, clips[i], feePercent)]

payoutFrame == <<balance, transactions, last, quote, appConfig, leaderboard, events>>

\* GET /payouts/campaign/:campaignId: calculateCampaignPayments is called
PaymentsRequest(w, c) ==
  /\ AllIdle
  /\ deliveries < MaxDeliveries
  /\ proc' = [proc EXCEPT ![w] =
       [Idle EXCEPT !.kind = "payments", !.pc = "fetch",
                    !.campaignData = [NoData EXCEPT !.campaignId = c]]]
  /\ base' = Ledger
  /\ deliveries' = deliveries + 1
  /\ UNCHANGED <<call, hist, payoutFrame>>

\* POST /payouts/campaign/:campaignId/process: processPayouts is called
PayoutsRequest(w, c) ==
  /\ AllIdle
  /\ deliveries < MaxDeliveries
  /\ proc' = [proc EXCEPT ![w] =
       [Idle EXCEPT !.kind = "payouts", !.pc = "fetch",
                    !.campaignData = [NoData EXCEPT !.campaignId = c]]]
  /\ hist' = [prev |-> hist.cur,
              cur |-> [NoRun EXCEPT !.stage = "started", !.begin = Ledger,
                                    !.campaignId = c]]
  /\ base' = Ledger
  /\ deliveries' = deliveries + 1
  /\ UNCHANGED <<call, payoutFrame>>

\* calculateCampaignPayments: fetchCampaignData throws when the campaign
\* service does not answer with the campaign, fetchApprovedClips returns no
\* clips when the clip service fails; then the payments are calculated.
\* processPayouts returns at once when there is no payment.
FetchPayments(w) ==
  /\ proc[w].kind \in {"payments", "payouts"}
  /\ proc[w].pc = "fetch"
  /\ \E campaignFound \in BOOLEAN, clipsFetched \in BOOLEAN :
     \E clips \in {IF clipsFetched
                     THEN ApprovedClips(proc[w].campaignData.campaignId)
                     ELSE <<>>} :
     \E payments \in {IF campaignFound
                        THEN CampaignPayments(
                               PaymentConfig(proc[w].campaignData.campaignId),
                               clips, appConfig.platformFeePercent)
                        ELSE <<>>} :
       LET f == proc[w]
           over == f.kind = "payments" \/ payments = <<>>
       IN IF ~campaignFound
            THEN /\ proc' = [proc EXCEPT ![w].pc = "failed"]
                 /\ hist' = IF f.kind = "payouts"
                              THEN [hist EXCEPT !.cur.stage = "failed",
                                                !.cur.after = Ledger]
                              ELSE hist
            ELSE /\ proc' = [proc EXCEPT ![w] =
                      [@ EXCEPT !.clips = clips, !.payments = payments, !.idx = 1,
                                !.pc = IF over THEN "done" ELSE "release"]]
                 /\ hist' = IF f.kind = "payouts" /\ over
                              THEN [hist EXCEPT !.cur.stage = "completed",
                                                !.cur.after = Ledger]
                              ELSE hist
  /\ UNCHANGED <<call, base, deliveries, payoutFrame>>

\* processPayouts: one turn of the loop over the payments, up to the
\* releasePending call; after the last turn the count and the list of the
\* successes are returned
PayoutRelease(w) ==
  /\ proc[w].kind = "payouts"
  /\ proc[w].pc = "release"
  /\ LET f == proc[w] IN
       IF f.idx > Len(f.payments)
         THEN /\ proc' = [proc EXCEPT ![w].pc = "done"]
              /\ hist' = [hist EXCEPT !.cur.stage = "completed",
                                      !.cur.after = Ledger,
                                      !.cur.processed = Len(f.results),
                                      !.cur.total = Len(f.payments)]
              /\ UNCHANGED call
         ELSE /\ proc' = [proc EXCEPT ![w].pc = "released"]
              /\ call' = [call EXCEPT ![w] =
                   Enter("releasePending", f.payments[f.idx].editorId,
                         f.payments[f.idx].netAmount, f.campaignData.campaignId,
                         f.payments[f.idx].clipId)]
              /\ UNCHANGED hist
  /\ UNCHANGED <<base, deliveries, payoutFrame>>

\* releasePending returned and results.push follows, or it threw into the
\* catch of the loop body
PayoutReleased(w) ==
  /\ proc[w].kind = "payouts"
  /\ proc[w].pc = "released"
  /\ call[w].pc = "returned"
  /\ call' = [call EXCEPT ![w] = NoCall]
  /\ proc' = [proc EXCEPT ![w] =
       [@ EXCEPT !.idx = @ + 1, !.pc = "release",
                 !.results = IF call[w].result = "ok"
                               THEN Append(@, [editorId |-> call[w].userId,
                                               amount |-> call[w].amount])
                               ELSE @]]
  /\ UNCHANGED <<base, deliveries, hist, payoutFrame>>

\* the route replies with the result, or with the error through sendError
PayoutReply(w) ==
  /\ proc[w].kind \in {"payments", "payouts"}
  /\ proc[w].pc \in {"done", "failed"}
  /\ proc' = [proc EXCEPT ![w] = Idle]
  /\ UNCHANGED <<call, base, deliveries, hist, payoutFrame>>

\* ------------------------------------------- direct calls (routes, tests)

\* handleCampaignEnded is called for a campaign with a leaderboard: step 1
\* begins with finalizeLeaderboard
Step1Call(w, c) ==
  /\ AllIdle
  /\ proc' = [proc EXCEPT ![w] =
       [Idle EXCEPT !.kind = "step1", !.pc = "finalize",
                    !.campaignData = [NoData EXCEPT !.campaignId = c,
                                                     !.enableLeaderboard = TRUE]]]
  /\ hist' = [prev |-> hist.cur,
              cur |-> [NoRun EXCEPT !.stage = "started", !.begin = Ledger,
                                    !.boardBegin = leaderboard]]
  /\ UNCHANGED <<call, closureFrame, leaderboard, events>>

\* distributePrizes is called on the leaderboard as it stands
DistributePrizesCall(w, c) ==
  /\ AllIdle
  /\ proc' = [proc EXCEPT ![w] =
       [Idle EXCEPT !.kind = "step1", !.pc = "prizeConfig",
                    !.campaignData = [NoData EXCEPT !.campaignId = c,
                                                     !.enableLeaderboard = TRUE]]]
  /\ hist' = [prev |-> hist.cur,
              cur |-> [NoRun EXCEPT !.stage = "started", !.begin = Ledger,
                                    !.boardBegin = leaderboard]]
  /\ UNCHANGED <<call, closureFrame, leaderboard, events>>

\* a caller invokes one ledger function; calls made while another is still
\* running belong to the same round and share its base
ApiCall(w) ==
  /\ proc[w].kind = "idle"
  /\ \A v \in Workers : proc[v].kind \in {"idle", "api"}
  /\ \A v \in Workers : call[v].pc # "returned"
  /\ Len(transactions) < MaxTx
  /\ \/ \E op \in Mutators, u \in ApiUsers, a \in Amounts, c \in Campaigns :
          call' = [call EXCEPT ![w] = Enter(op, u, a, c, "direct")]
     \/ \E u \in ApiUsers :
          call' = [call EXCEPT ![w] = Enter("getBalance", u, 0, "none", "none")]
  /\ proc' = [proc EXCEPT ![w] = [Idle EXCEPT !.kind = "api"]]
  /\ base' = IF AllIdle THEN Ledger ELSE base
  /\ UNCHANGED <<balance, transactions, last, quote, appConfig, sagaVars>>

\* the callers of a round see their calls return
ApiReturn ==
  /\ \E w \in Workers : proc[w].kind = "api"
  /\ \A w \in Workers : proc[w].kind = "api" => call[w].pc = "returned"
  /\ last' = IF Cardinality({w \in Workers : proc[w].kind = "api"}) = 1
               THEN Remember(call[CHOOSE w \in Workers : proc[w].kind = "api"], base)
               ELSE NoLast
  /\ call' = [w \in Workers |-> NoCall]
  /\ proc' = [w \in Workers |-> Idle]
  /\ UNCHANGED <<balance, transactions, base, quote, appConfig, sagaVars>>

\* ------------------------------------------------------- specifications
InitService ==
  /\ balance = [u \in Users |-> NoBalance]
  /\ transactions = <<>>
  /\ call = [w \in Workers |-> NoCall]
  /\ proc = [w \in Workers |-> Idle]
  /\ base = EmptyLedger
  /\ last = NoLast
  /\ leaderboard = [k \in Clips |-> NoEntry]
  /\ events = [e \in EventIds |->
                 [status |-> "new", payload |-> NoPayload, acks |-> 0, nacks |-> 0]]
  /\ deliveries = 0
  /\ hist = [prev |-> NoRun, cur |-> NoRun]

Init == InitService /\ quote = NoQuote /\ appConfig = DefaultConfig

\* a caller is about to calculate the payment of a clip
InitPay ==
  /\ InitService
  /\ quote \in {[NoQuote EXCEPT !.input = i] : i \in ClipPaymentInputs}
  /\ appConfig = DefaultConfig

NextPay == CalculateClipPaymentCall

SpecPay == InitPay /\ [][NextPay]_vars

\* direct ledger calls, up to one per worker at a time
NextLedger ==
  \/ \E w \in Workers : ApiCall(w)
  \/ \E w \in Workers : CallRead(w)
  \/ \E w \in Workers : CallWrite(w)
  \/ \E w \in Workers : CallCreate(w)
  \/ \E w \in Workers : CallPublish(w)
  \/ ApiReturn

SpecLedger == Init /\ [][NextLedger]_vars

\* direct ledger calls, one after the other
NextLedgerSeq ==
  \/ \E w \in Workers : AllIdle /\ ApiCall(w)
  \/ \E w \in Workers : CallRead(w)
  \/ \E w \in Workers : CallWrite(w)
  \/ \E w \in Workers : CallCreate(w)
  \/ \E w \in Workers : CallPublish(w)
  \/ ApiReturn

SpecLedgerSeq == Init /\ [][NextLedgerSeq]_vars

\* the event-driven service: deliveries handled one at a time
Next ==
  \/ \E m \in Metrics : CalculateLeaderboard("c1", m)
  \/ \E w \in Consumer, e \in EventIds : DeliverClipApproved(w, e)
  \/ \E w \in Consumer : ClipReserved(w)
  \/ \E w \in Consumer : ClipPublish(w)
  \/ \E w \in Consumer : ClipAck(w)
  \/ \E w \in Consumer, e \in EventIds : DeliverCampaignEnded(w, e)
  \/ \E w \in Consumer : EndedFetch(w)
  \/ \E w \in Consumer : Finalize(w)
  \/ \E w \in Consumer : Rerank(w)
  \/ \E w \in Consumer : PrizeBoard(w)
  \/ \E w \in Consumer : Prize(w)
  \/ \E w \in Consumer : PrizeReserved(w)
  \/ \E w \in Consumer : PrizePublish(w)
  \/ \E w \in Consumer : Reservations(w)
  \/ \E w \in Consumer : Payouts(w)
  \/ \E w \in Consumer : Release(w)
  \/ \E w \in Consumer : Released(w)
  \/ \E w \in Consumer : Refund(w)
  \/ \E w \in Consumer : Refunded(w)
  \/ \E w \in Consumer : SyncCache(w)
  \/ \E w \in Consumer : EndedAck(w)
  \/ \E w \in Consumer : CallRead(w)
  \/ \E w \in Consumer : CallWrite(w)
  \/ \E w \in Consumer : CallPublish(w)

Spec == Init /\ [][Next]_vars

\* the leaderboard of a campaign as calculateLeaderboard calls leave it, and
\* one call of step 1 of the closure or of distributePrizes on it
NextBoard ==
  \/ \E f \in Fetches("c2") : CalculateLeaderboardOn("c2", f)
  \/ \E w \in Consumer : Step1Call(w, "c2")
  \/ \E w \in Consumer : DistributePrizesCall(w, "c2")
  \/ \E w \in Consumer : Finalize(w)
  \/ \E w \in Consumer : Rerank(w)
  \/ \E w \in Consumer : PrizeBoard(w)
  \/ \E w \in Consumer : Prize(w)
  \/ \E w \in Consumer : PrizeReserved(w)
  \/ \E w \in Consumer : PrizePublish(w)
  \/ \E w \in Consumer : CallRead(w)
  \/ \E w \in Consumer : CallWrite(w)
  \/ \E w \in Consumer : CallPublish(w)

SpecBoard == Init /\ [][NextBoard]_vars

\* the event-driven service on a storage whose accesses may fail, for
\* campaigns whose leaderboard was never calculated
NextFaults ==
  \/ \E w \in Consumer, e \in EventIds : DeliverClipApproved(w, e)
  \/ \E w \in Consumer : ClipReserved(w)
  \/ \E w \in Consumer : ClipPublish(w)
  \/ \E w \in Consumer : ClipAck(w)
  \/ \E w \in Consumer, e \in EventIds : DeliverClipRejected(w, e)
  \/ \E w \in Consumer : ClipRejectedAck(w)
  \/ \E w \in Consumer, e \in EventIds : DeliverCampaignFunded(w, e)
  \/ \E w \in Consumer : FundedCreate(w)
  \/ \E w \in Consumer : FundedSync(w)
  \/ \E w \in Consumer : FundedAck(w)
  \/ \E w \in Consumer, e \in EventIds : DeliverCampaignEnded(w, e)
  \/ \E w \in Consumer : EndedFetch(w)
  \/ \E w \in Consumer : Finalize(w)
  \/ \E w \in Consumer : PrizeBoard(w)
  \/ \E w \in Consumer : Prize(w)
  \/ \E w \in Consumer : Reservations(w)
  \/ \E w \in Consumer : Payouts(w)
  \/ \E w \in Consumer : Release(w)
  \/ \E w \in Consumer : Released(w)
  \/ \E w \in Consumer : Refund(w)
  \/ \E w \in Consumer : Refunded(w)
  \/ \E w \in Consumer : SyncCache(w)
  \/ \E w \in Consumer : EndedAck(w)
  \/ \E w \in Consumer : CallRead(w)
  \/ \E w \in Consumer : CallWrite(w)
  \/ \E w \in Consumer : CallPublish(w)
  \/ \E w \in Consumer : CallFault(w)

SpecFaults == Init /\ [][NextFaults]_vars

\* POST /funding/campaign/:campaignId: a body without a positive amount is
\* refused before the ledger is called; otherwise addFunds for the caller
FundCampaign(w, amount) ==
  /\ AllIdle
  /\ Len(transactions) < MaxTx
  /\ amount > 0
  /\ call' = [call EXCEPT ![w] =
       Enter("addFunds", "cr", amount, "c1", "Campaign funding")]
  /\ proc' = [proc EXCEPT ![w] = [Idle EXCEPT !.kind = "route", !.pc = "addFunds"]]
  /\ UNCHANGED <<balance, transactions, base, last, quote, appConfig, sagaVars>>

\* addFunds has returned or thrown: logAudit and the reply, or sendError
FundCampaignReply(w) ==
  /\ proc[w].kind = "route"
  /\ call[w].pc = "returned"
  /\ call' = [call EXCEPT ![w] = NoCall]
  /\ proc' = [proc EXCEPT ![w] = Idle]
  /\ UNCHANGED <<balance, transactions, base, last, quote, appConfig, sagaVars>>

\* the whole service: the event handlers on a storage whose accesses may
\* fail, and between two deliveries the funding route
NextService ==
  \/ NextFaults
  \/ \E w \in Consumer, a \in Amounts : FundCampaign(w, a)
  \/ \E w \in Consumer : FundCampaignReply(w)

SpecService == Init /\ [][NextService]_vars

\* funds are reserved for the editors of the first campaign, and released,
\* by direct calls while the campaign runs: before campaign.ended is delivered
EditorCall(w) ==
  /\ deliveries = 0
  /\ AllIdle
  /\ ApiCall(w)
  /\ call'[w].op \in {"reserveFunds", "releasePending"}
  /\ call'[w].campaignId = "c1"
  /\ call'[w].amount > 0

\* the closure of a campaign after such calls, on a storage whose accesses
\* may fail
NextClosure ==
  \/ \E w \in Consumer : EditorCall(w)
  \/ ApiReturn
  \/ \E w \in Consumer : DeliverCampaignEnded(w, "end")
  \/ \E w \in Consumer : EndedFetch(w)
  \/ \E w \in Consumer : Finalize(w)
  \/ \E w \in Consumer : PrizeBoard(w)
  \/ \E w \in Consumer : Prize(w)
  \/ \E w \in Consumer : Reservations(w)
  \/ \E w \in Consumer : Payouts(w)
  \/ \E w \in Consumer : Release(w)
  \/ \E w \in Consumer : Released(w)
  \/ \E w \in Consumer : Refund(w)
  \/ \E w \in Consumer : Refunded(w)
  \/ \E w \in Consumer : SyncCache(w)
  \/ \E w \in Consumer : EndedAck(w)
  \/ \E w \in Consumer : CallRead(w)
  \/ \E w \in Consumer : CallWrite(w)
  \/ \E w \in Consumer : CallPublish(w)
  \/ \E w \in Consumer : CallFault(w)

SpecClosure == Init /\ [][NextClosure]_vars

\* funds are reserved for the editors, for either campaign, by direct calls
\* while the campaigns run: before campaign.ended is delivered
ReserveCall(w) ==
  /\ deliveries = 0
  /\ AllIdle
  /\ ApiCall(w)
  /\ call'[w].op = "reserveFunds"
  /\ call'[w].userId = "e1"
  /\ call'[w].amount > 0

\* the first campaign.ended event of a campaign without a leaderboard is
\* delivered
DeliverFirst(w) ==
  /\ events["end"].status = "new"
  /\ DeliverCampaignEnded(w, "end")
  /\ ~events'["end"].payload.hasLeaderboard

\* two handlers of campaign.ended for one campaign, on two workers, after
\* such reservations
NextRace ==
  \/ \E w \in Consumer : ReserveCall(w)
  \/ ApiReturn
  \/ \E w \in Consumer : DeliverFirst(w)
  \/ \E w \in Workers \ Consumer : DeliverDuplicate(w, "end2")
  \/ \E w \in Workers : EndedFetch(w)
  \/ \E w \in Workers : Reservations(w)
  \/ \E w \in Workers : Payouts(w)
  \/ \E w \in Workers : Release(w)
  \/ \E w \in Workers : Released(w)
  \/ \E w \in Workers : Refund(w)
  \/ \E w \in Workers : Refunded(w)
  \/ \E w \in Workers : SyncCache(w)
  \/ \E w \in Workers : EndedAck(w)
  \/ \E w \in Workers : CallRead(w)
  \/ \E w \in Workers : CallWrite(w)
  \/ \E w \in Workers : CallPublish(w)

SpecRace == Init /\ [][NextRace]_vars

\* a process started with some fee percentage
InitPayout ==
  /\ InitService
  /\ quote = NoQuote
  /\ appConfig \in {[platformFeePercent |-> p] : p \in FeePercents}

\* the payout routes, after funds were reserved for the editors of the first
\* campaign
NextPayout ==
  \/ \E w \in Consumer : EditorCall(w)
  \/ ApiReturn
  \/ \E w \in Consumer, c \in Campaigns : PaymentsRequest(w, c)
  \/ \E w \in Consumer, c \in Campaigns : PayoutsRequest(w, c)
  \/ \E w \in Consumer : FetchPayments(w)
  \/ \E w \in Consumer : PayoutRelease(w)
  \/ \E w \in Consumer : PayoutReleased(w)
  \/ \E w \in Consumer : PayoutReply(w)
  \/ \E w \in Consumer : CallRead(w)
  \/ \E w \in Consumer : CallWrite(w)
  \/ \E w \in Consumer : CallPublish(w)

SpecPayout == InitPayout /\ [][NextPayout]_vars

\* ------------------------------------------------------------ properties
RECURSIVE SumAmounts(_)
SumAmounts(rows) ==
  IF rows = <<>> THEN 0
  ELSE rows[1].amount + SumAmounts(SubSeq(rows, 2, Len(rows)))

\* the closure has run twice, and the pending-release step of the second run
\* started from the ledger the pending-release step of the first run left
ReleaseStepTwiceInARow ==
  /\ hist.cur.stage \in {"step2done", "completed", "failed"}
  /\ Finished(hist.prev)
  /\ hist.cur.s2begin = hist.prev.s2end

\* C1: when the pending-release step of the closure runs twice in a row for
\* the campaign, with no ledger operation between the two runs, the second
\* run appends no row and changes no balance.
ClosureReleaseIdempotent ==
  ReleaseStepTwiceInARow => hist.cur.s2end = hist.cur.s2begin

\* ... and the first of the two runs did release funds
ReleasedThenRunAgain ==
  /\ ReleaseStepTwiceInARow
  /\ RowsOf(hist.prev.s2end.log, "c1", "PAYOUT")
       # RowsOf(hist.prev.s2begin.log, "c1", "PAYOUT")

\* C2: however often campaign.ended is delivered for the campaign, the REFUND
\* amounts credited for it add up to at most totalBudget - spentBudget.
CreatorRefundedAtMostOnce ==
  LET p == events["end"].payload IN
    p.kind = "campaign.ended" =>
      SumAmounts(RowsOf(transactions, p.campaignId, "REFUND"))
        <= CampaignRecord(p.campaignId).totalBudget - p.totalPaid

\* the RESERVATION rows written for a clip's approval
ClipReservations(k) ==
  SelectSeq(transactions,
            LAMBDA t : t.type = "RESERVATION" /\ t.description = k)

\* C3: however often clip.approved is delivered for a clip, the editor's
\* pending is raised by paymentAmount once and one RESERVATION row exists for
\* the clip: never more than one, and exactly one once the event is acked.
ClipReservedOnce ==
  \A k \in ClipEvents :
    /\ Len(ClipReservations(k)) <= 1
    /\ SumAmounts(ClipReservations(k)) <= events[k].payload.paymentAmount
    /\ events[k].status = "acked" => Len(ClipReservations(k)) = 1

ReservationsAndPayouts(log) ==
  SelectSeq(log, LAMBDA t : t.type \in {"RESERVATION", "PAYOUT"})

\* C4: when the closure of a leaderboard campaign runs and then runs again
\* before any refund has succeeded, the editors' balances and the RESERVATION
\* and PAYOUT rows after the second run are those after the first run.
ClosureRetryIdempotent ==
  LET p == events["end"].payload IN
    (/\ Finished(hist.cur)
     /\ Finished(hist.prev)
     /\ p.hasLeaderboard
     /\ hist.cur.begin = hist.prev.after
     /\ hist.cur.boardBegin = hist.prev.boardAfter
     /\ RowsOf(hist.cur.begin.log, p.campaignId, "REFUND") = <<>>)
    => /\ \A u \in Users \ {CampaignRecord(p.campaignId).createdBy} :
            hist.cur.after.bal[u] = hist.prev.after.bal[u]
       /\ ReservationsAndPayouts(hist.cur.after.log)
            = ReservationsAndPayouts(hist.prev.after.log)

Available(row) == IF row.exists THEN row.available ELSE 0

Pending(row) == IF row.exists THEN row.pending ELSE 0

\* a direct call has returned to its caller and nothing ran beside it
ReturnedAlone(w) ==
  /\ proc[w].kind = "api"
  /\ call[w].pc = "returned"
  /\ \A v \in Workers \ {w} : proc[v].kind = "idle"

\* C5: releasePending(u, a) with a > 0 and pending(u) >= a takes exactly a
\* off pending(u) and puts exactly a on available(u), so their sum is kept.
ReleaseMovesPendingToAvailable ==
  \A w \in Workers :
    LET c == call[w]
        before == base.bal[c.userId]
    IN (/\ ReturnedAlone(w)
        /\ c.op = "releasePending"
        /\ c.amount > 0
        /\ before.exists
        /\ before.pending >= c.amount)
       => /\ balance[c.userId].pending = before.pending - c.amount
          /\ balance[c.userId].available = before.available + c.amount
          /\ balance[c.userId].available + balance[c.userId].pending
               = before.available + before.pending

ReleaseReturned ==
  \E w \in Workers :
    /\ ReturnedAlone(w)
    /\ call[w].op = "releasePending"
    /\ call[w].amount > 0
    /\ base.bal[call[w].userId].exists
    /\ base.bal[call[w].userId].pending >= call[w].amount

\* C6: releasePending(u, a) with pending(u) < a fails with
\* InsufficientPending and leaves every balance and the log as they were.
ReleaseFailsClosed ==
  \A w \in Workers :
    LET c == call[w]
        before == base.bal[c.userId]
    IN (/\ ReturnedAlone(w)
        /\ c.op = "releasePending"
        /\ before.exists
        /\ before.pending < c.amount)
       => /\ c.result = "InsufficientPending"
          /\ balance = base.bal
          /\ transactions = base.log

ReleaseRefused ==
  \E w \in Workers :
    /\ ReturnedAlone(w)
    /\ call[w].op = "releasePending"
    /\ base.bal[call[w].userId].exists
    /\ base.bal[call[w].userId].pending > 0
    /\ base.bal[call[w].userId].pending < call[w].amount

GetBalanceAfterReserve ==
  \E w \in Workers :
    /\ ReturnedAlone(w)
    /\ call[w].op = "getBalance"
    /\ last.op = "reserveFunds"
    /\ last.userId = call[w].userId
    /\ last.amount > 0

BalancesNonNegative ==
  \A u \in Users : balance[u].available >= 0 /\ balance[u].pending >= 0

\* a release has taken a user's pending down to exactly zero
PendingDrained ==
  \E u \in Users :
    /\ balance[u].exists
    /\ balance[u].pending = 0
    /\ balance[u].available > 0
    /\ \E i \in 1..Len(transactions) :
         transactions[i].type = "PAYOUT" /\ transactions[i].userId = u

\* the ledger a call leaves when it runs alone from ledger s
Alone(s, c) ==
  IF c.op = "getBalance"
    THEN IF s.bal[c.userId].exists THEN s
         ELSE [s EXCEPT !.bal = CreateZero(s.bal, c.userId)]
  ELSE IF AmountRejected(c.amount) THEN s
  ELSE IF c.op = "releasePending" /\ ReleaseCheck(s.bal[c.userId], c.amount) # "ok"
    THEN s
  ELSE [bal |-> BalanceUpdate(c.op, s.bal, c.userId, c.amount),
        log |-> Append(s.log,
          TxRow(c.userId, c.campaignId, c.amount, TxType(c.op), c.description))]

\* two calls on one user, a releasePending and a releasePending or
\* reserveFunds, have run side by side and both have returned
RacedOnOneUser ==
  /\ \A w \in Workers : proc[w].kind = "api" /\ call[w].pc = "returned"
  /\ \E u \in Users : \A w \in Workers : call[w].userId = u
  /\ \A w \in Workers : call[w].op \in {"releasePending", "reserveFunds"}
  /\ \E w \in Workers : call[w].op = "releasePending"

\* C9: concurrent releasePending / reserveFunds calls on one user leave the
\* balances some serial order of the two calls leaves, and pending is never
\* negative.
ConcurrentCallsSerialize ==
  /\ \A u \in Users : balance[u].pending >= 0
  /\ RacedOnOneUser =>
       \E w \in Workers : \E v \in Workers \ {w} :
         balance = Alone(Alone(base, call[w]), call[v]).bal

\* C10: a direct addFunds, reserveFunds, releasePending or refundToCreator
\* that succeeds appends exactly one row, of its type and with its userId,
\* campaignId and amount; a row is appended only together with the balance
\* change of its type, and no balance changes without a row.
OneRowPerMutation ==
  \A w \in Workers :
    LET c == call[w]
        n == Len(base.log)
        row == transactions[n + 1]
        dAvailable == IF row.type \in {"DEPOSIT", "REFUND", "PAYOUT"} THEN row.amount ELSE 0
        dPending == CASE row.type = "RESERVATION" -> row.amount
                      [] row.type = "PAYOUT" -> 0 - row.amount
                      [] OTHER -> 0
    IN ReturnedAlone(w) =>
         /\ (c.op \in Mutators /\ c.result = "ok") =>
              transactions = Append(base.log,
                [userId |-> c.userId, campaignId |-> c.campaignId,
                 amount |-> c.amount, type |-> TxType(c.op),
                 description |-> c.description])
         /\ transactions # base.log =>
              /\ Len(transactions) = n + 1
              /\ SubSeq(transactions, 1, n) = base.log
              /\ row.type \in {"DEPOSIT", "RESERVATION", "PAYOUT", "REFUND"}
              /\ \A u \in Users :
                   /\ Available(balance[u]) = Available(base.bal[u])
                        + (IF u = row.userId THEN dAvailable ELSE 0)
                   /\ Pending(balance[u]) = Pending(base.bal[u])
                        + (IF u = row.userId THEN dPending ELSE 0)
         /\ transactions = base.log =>
              \A u \in Users :
                /\ Available(balance[u]) = Available(base.bal[u])
                /\ Pending(balance[u]) = Pending(base.bal[u])

\* a direct releasePending for the second campaign has returned successfully
ReleaseSucceeded ==
  \E w \in Workers :
    /\ ReturnedAlone(w)
    /\ call[w].op = "releasePending"
    /\ call[w].result = "ok"
    /\ call[w].campaignId = "c2"

\* C11: addFunds, reserveFunds and refundToCreator called with amount <= 0
\* fail with InvalidAmount, and after the failure no Balance row has been
\* created or changed and no transaction has been appended.
ValidationPrecedesWrites ==
  \A w \in Workers :
    LET c == call[w] IN
      (/\ ReturnedAlone(w)
       /\ c.op \in {"addFunds", "reserveFunds", "refundToCreator"}
       /\ c.amount <= 0)
      => /\ c.result = "InvalidAmount"
         /\ balance = base.bal
         /\ transactions = base.log

\* a zero amount was refused for a user that has no Balance row
ZeroAmountRefused ==
  \E w \in Workers :
    /\ ReturnedAlone(w)
    /\ call[w].op \in {"addFunds", "reserveFunds", "refundToCreator"}
    /\ call[w].amount = 0
    /\ ~base.bal[call[w].userId].exists

\* the rows of one type written for a user and a campaign
RowsFor(log, u, c, type) ==
  SelectSeq(log, LAMBDA t : t.userId = u /\ t.campaignId = c /\ t.type = type)

\* C12: in every reachable state, for every user and campaign, the PAYOUT
\* amounts recorded for the pair add up to no more than the RESERVATION
\* amounts recorded for it: releasePending never records more PAYOUT for a
\* user and campaign than was reserved for that user and campaign.
NoOverReleasePerCampaign ==
  \A u \in Users : \A c \in Campaigns :
    SumAmounts(RowsFor(transactions, u, c, "RESERVATION"))
      - SumAmounts(RowsFor(transactions, u, c, "PAYOUT")) >= 0

\* the remainder of a user for a campaign, computed from a log
Remainder(log, u, c) ==
  SumAmounts(RowsFor(log, u, c, "RESERVATION"))
    - SumAmounts(RowsFor(log, u, c, "PAYOUT"))

\* the releasePending calls the running closure has made for a user
ReleaseCalls(w, u) == SelectSeq(proc[w].releases, LAMBDA r : r.userId = u)

\* C13: when step 2 of the closure is over, releasePending has been called
\* exactly once, with exactly the remainder, for every editor whose
\* RESERVATION-minus-PAYOUT remainder for the campaign was positive in the log
\* step 2 read, and not at all for any other user.
ReleaseCalledOncePerRemainder ==
  \A w \in Workers :
    At(w, "refund") =>
      \A u \in Users :
        LET r == Remainder(hist.cur.s2begin.log, u, proc[w].campaignData.campaignId)
        IN ReleaseCalls(w, u) =
             IF r > 0 THEN <<[userId |-> u, amount |-> r]>> ELSE <<>>

\* step 2 is over: it released a remainder left after earlier payouts of the
\* campaign, and skipped an editor whose reservations were all paid out
ReleasedARemainder ==
  \E w \in Workers :
    /\ At(w, "refund")
    /\ proc[w].releases # <<>>
    /\ ExistingPayouts(hist.cur.s2begin.log, proc[w].campaignData.campaignId) # <<>>

\* the rows a closure run appended to the log
RunRows(run) == SubSeq(run.after.log, Len(run.begin.log) + 1, Len(run.after.log))

Positive(n) == IF n > 0 THEN n ELSE 0

\* C14: a closure run appends one REFUND row, for the creator and of exactly
\* totalBudget - spentBudget, when that difference is positive and the
\* campaign is funded, and no REFUND row otherwise; and a run for a campaign
\* without leaderboard moves every editor's remainder from pending to
\* available and adds the refund to the creator's available.
RefundExactlyWhenDue ==
  LET p == events["end"].payload
      c == p.campaignId
      d == CampaignRecord(c)
      due == d.totalBudget - p.totalPaid
      refund == IF due > 0 /\ d.isFunded THEN due ELSE 0
      run == hist.cur
  IN Finished(run) =>
       /\ SelectSeq(RunRows(run), LAMBDA t : t.type = "REFUND")
            = IF due > 0 /\ d.isFunded
                THEN <<TxRow(d.createdBy, c, due, "REFUND", "refund")>>
                ELSE <<>>
       /\ ~p.hasLeaderboard =>
            \A u \in Users :
              LET r == Positive(Remainder(run.begin.log, u, c)) IN
                /\ Pending(run.after.bal[u]) = Pending(run.begin.bal[u]) - r
                /\ Available(run.after.bal[u]) = Available(run.begin.bal[u]) + r
                     + (IF u = d.createdBy THEN refund ELSE 0)

\* a run of a funded campaign with unused budget has completed: it released
\* an editor's whole reservation, none of it released before, and refunded
ClosedWithReleaseAndRefund ==
  LET p == events["end"].payload
      d == CampaignRecord(p.campaignId)
  IN /\ hist.cur.stage = "completed"
     /\ ~p.hasLeaderboard
     /\ d.isFunded
     /\ d.totalBudget - p.totalPaid > 0
     /\ ExistingPayouts(hist.cur.begin.log, p.campaignId) = <<>>
     /\ \E u \in Users : Remainder(hist.cur.begin.log, u, p.campaignId) > 0

\* a run of an unfunded campaign with unused budget has completed
ClosedUnfunded ==
  LET p == events["end"].payload
      d == CampaignRecord(p.campaignId)
  IN /\ hist.cur.stage = "completed"
     /\ ~d.isFunded
     /\ d.totalBudget - p.totalPaid > 0

\* C15: a closure run in which a per-editor releasePending failed is followed
\* by another processing of campaign.ended, so that the remainders are released
\* in the end: the handler is about to acknowledge the event, after which it
\* is not processed again, only when no editor has a remainder left for the
\* campaign.
AckedOnlyWhenAllReleased ==
  \A w \in Workers :
    At(w, "ack") =>
      \A u \in Users :
        Remainder(transactions, u, proc[w].campaignData.campaignId) = 0

\* C16: for every delivery of clip.approved, clip.rejected, campaign.ended or
\* campaign.funded, the handler has called exactly one of ack and nack when
\* it finishes, whichever way it finishes.
HandlerSettlesDelivery ==
  \A e \in EventIds :
    events[e].status \in {"queued", "acked"} =>
      events[e].acks + events[e].nacks = 1

\* finalizeLeaderboard has just completed in worker w
FinalizeDone(w) == At(w, "prizeConfig") /\ proc[w].idx > 0

\* C17: after finalizeLeaderboard completes, the ranks of the campaign's N
\* entries are exactly 1..N, each used once, and a lower rank never goes with
\* a lower score, whatever ranks the entries held before the call.
FinalizedRanks ==
  \A w \in Workers :
    FinalizeDone(w) =>
      LET E == EntriesOf(proc[w].campaignData.campaignId) IN
        /\ {leaderboard[k].rank : k \in E} = 1..Cardinality(E)
        /\ \A a \in E : \A b \in E :
             leaderboard[a].rank < leaderboard[b].rank
               => leaderboard[a].score >= leaderboard[b].score

\* a leaderboard of four entries has been finalized that held one rank twice
\* and a higher score at a higher rank before the call
FinalizedFromDisorder ==
  \E w \in Workers :
    /\ FinalizeDone(w)
    /\ Len(proc[w].entries) = 4
    /\ \E i \in 1..4 : \E j \in 1..4 :
         /\ i # j
         /\ proc[w].entries[i].rank = proc[w].entries[j].rank
    /\ \E i \in 1..4 : \E j \in 1..4 :
         /\ proc[w].entries[i].rank < proc[w].entries[j].rank
         /\ proc[w].entries[i].score < proc[w].entries[j].score

\* finalizeLeaderboard has completed on entries with scores 10, 30, 30, 5 in
\* the order they were created
FinalizedExample(w) ==
  /\ FinalizeDone(w)
  /\ proc[w].campaignData.campaignId = "c2"
  /\ \A k \in {"k2", "k4", "k5", "k6"} : leaderboard[k].exists
  /\ leaderboard["k2"].score = 10
  /\ leaderboard["k4"].score = 30
  /\ leaderboard["k5"].score = 30
  /\ leaderboard["k6"].score = 5

\* C18 as stated: with scores [10, 30, 30, 5] the ranks after
\* finalizeLeaderboard are [3, 1, 1, 4], the entries of equal score sharing a
\* rank.
TiedScoresShareRank ==
  \A w \in Workers :
    FinalizedExample(w) =>
      /\ leaderboard["k2"].rank = 3
      /\ leaderboard["k4"].rank = 1
      /\ leaderboard["k5"].rank = 1
      /\ leaderboard["k6"].rank = 4

\* C18 as amended: with scores [10, 30, 30, 5] the ranks after
\* finalizeLeaderboard are [3, 1, 2, 4] or [3, 2, 1, 4]: the two entries of
\* equal score get the ranks 1 and 2, in the order the database returned them.
TiedScoresGetConsecutiveRanks ==
  \A w \in Workers :
    FinalizedExample(w) =>
      /\ leaderboard["k2"].rank = 3
      /\ {leaderboard["k4"].rank, leaderboard["k5"].rank} = {1, 2}
      /\ leaderboard["k6"].rank = 4

FinalizedTheExample == \E w \in Workers : FinalizedExample(w)

\* distributePrizes has gone through every configured position in worker w
PrizeLoopDone(w) ==
  /\ At(w, "reservations")
  /\ proc[w].campaignData.enableLeaderboard
  /\ PrizeConfig(proc[w].campaignData.campaignId) # <<>>

\* the configured prizes whose position is the rank of some entry
PrizesWithEntry(c) ==
  SelectSeq(PrizeConfig(c),
            LAMBDA prize : \E k \in EntriesOf(c) : leaderboard[k].rank = prize.position)

\* C19: distributePrizes reserves, for each configured position that is the
\* rank of a leaderboard entry, exactly the configured reward into the pending
\* balance of the editor of an entry of that rank, by one reserveFunds call;
\* a position that is no entry's rank gets nothing and does not stop the
\* positions after it.
PrizesReservedPerPosition ==
  \A w \in Workers :
    PrizeLoopDone(w) =>
      LET c == proc[w].campaignData.campaignId
          won == PrizesWithEntry(c)
          new == SubSeq(transactions, Len(hist.cur.begin.log) + 1, Len(transactions))
      IN /\ Len(new) = Len(won)
         /\ \A i \in 1..Len(won) :
              /\ new[i].type = "RESERVATION"
              /\ new[i].campaignId = c
              /\ new[i].amount = won[i].reward
              /\ \E k \in EntriesOf(c) :
                   /\ leaderboard[k].rank = won[i].position
                   /\ leaderboard[k].editorId = new[i].userId
         /\ \A u \in Users :
              /\ Pending(balance[u]) = Pending(hist.cur.begin.bal[u])
                   + SumAmounts(SelectSeq(new, LAMBDA t : t.userId = u))
              /\ Available(balance[u]) = Available(hist.cur.begin.bal[u])

\* distributePrizes found no entry at the first position and then reserved
\* the prize of the second
SkippedThenReserved ==
  \E w \in Workers :
    /\ PrizeLoopDone(w)
    /\ Len(PrizesWithEntry(proc[w].campaignData.campaignId)) = 1
    /\ PrizesWithEntry(proc[w].campaignData.campaignId)[1].position = 3
    /\ Len(transactions) = Len(hist.cur.begin.log) + 1

\* the whole amount of a payment input, in units, before the limit
WholeAmount(i) ==
  CASE i.paymentType = "FIXED" -> i.basePay \div 2
    [] i.paymentType = "PAY_PER_VIEW" -> i.views * (i.rewardPerView \div 2)
    [] i.paymentType = "HYBRID" -> (i.basePay \div 2) + i.views * (i.rewardPerView \div 2)
    [] OTHER -> 0

\* C20: for whole-number inputs calculateClipPayment returns basePay for
\* FIXED, views x rewardPerView for PAY_PER_VIEW, basePay + views x
\* rewardPerView for HYBRID and 0 for any other type, replaced by limitPerClip
\* exactly when the limit is set, positive and smaller; so the result never
\* exceeds a set positive limit, and HYBRID with 100, 2 and 10 views gives 120.
ClipPaymentAsSpecified ==
  LET i == quote.input
      l == i.limitPerClip
      limited == l.set /\ l.value > 0 /\ (l.value \div 2) < WholeAmount(i)
  IN (/\ quote.done
      /\ IsWhole(i.basePay)
      /\ IsWhole(i.rewardPerView)
      /\ IsWhole(l.value))
     => /\ quote.result = IF limited THEN l.value \div 2 ELSE WholeAmount(i)
        /\ (l.set /\ l.value > 0) => quote.result <= l.value \div 2
        /\ (i.paymentType = "PAY_PER_VIEW" /\ i.views = 0) => quote.result = 0
        /\ (/\ i.paymentType = "HYBRID"
            /\ i.basePay = Whole(100)
            /\ i.rewardPerView = Whole(2)
            /\ i.views = 10
            /\ ~l.set) => quote.result = 120

\* the payment of the documented HYBRID example has been calculated under a
\* limit of 110
HybridExampleLimited ==
  /\ quote.done
  /\ quote.input.paymentType = "HYBRID"
  /\ quote.input.basePay = Whole(100)
  /\ quote.input.rewardPerView = Whole(2)
  /\ quote.input.views = 10
  /\ quote.input.limitPerClip = Limit(Whole(110))
  /\ quote.result = 110


\* C21: addFunds(u, a) and refundToCreator(u, a) with a > 0 raise
\* available(u) by exactly a, a user without a Balance getting the row
\* (a, 0); pending(u) and every other balance stay as they were and one row
\* is appended, a DEPOSIT for addFunds and a REFUND for refundToCreator.
CreditsAvailable ==
  \A w \in Workers :
    LET c == call[w]
        before == base.bal[c.userId]
    IN (/\ ReturnedAlone(w)
        /\ c.op \in {"addFunds", "refundToCreator"}
        /\ c.amount > 0)
       => /\ balance[c.userId].exists
          /\ balance[c.userId].available = Available(before) + c.amount
          /\ balance[c.userId].pending = Pending(before)
          /\ ~before.exists => balance[c.userId] = Row(c.amount, 0)
          /\ \A u \in Users \ {c.userId} : balance[u] = base.bal[u]
          /\ Len(transactions) = Len(base.log) + 1
          /\ SubSeq(transactions, 1, Len(base.log)) = base.log
          /\ LET row == transactions[Len(transactions)] IN
               /\ row.type = (IF c.op = "addFunds" THEN "DEPOSIT" ELSE "REFUND")
               /\ row.userId = c.userId
               /\ row.amount = c.amount

\* a refund was credited to a user whose Balance already held funds, pending
\* ones among them
RefundOnTopOfFunds ==
  \E w \in Workers :
    /\ ReturnedAlone(w)
    /\ call[w].op = "refundToCreator"
    /\ call[w].amount > 0
    /\ base.bal[call[w].userId].exists
    /\ base.bal[call[w].userId].available + base.bal[call[w].userId].pending > 0

\* C22 as stated: releasePending for a user that has no Balance row fails
\* with NotFound, creates no Balance row and appends no transaction, whatever
\* the amount.
ReleaseOfMissingIsNotFound ==
  \A w \in Workers :
    LET c == call[w] IN
      (/\ ReturnedAlone(w)
       /\ c.op = "releasePending"
       /\ ~base.bal[c.userId].exists)
      => /\ c.result = "NotFound"
         /\ balance = base.bal
         /\ transactions = base.log

\* C22 amended: releasePending(u, a) for a user that has no Balance row fails,
\* with NotFound when a > 0 and with InvalidAmount when a <= 0, and in both
\* cases no Balance row is created and no transaction is appended.
ReleaseOfMissingFails ==
  \A w \in Workers :
    LET c == call[w] IN
      (/\ ReturnedAlone(w)
       /\ c.op = "releasePending"
       /\ ~base.bal[c.userId].exists)
      => /\ c.result = (IF c.amount > 0 THEN "NotFound" ELSE "InvalidAmount")
         /\ balance = base.bal
         /\ transactions = base.log

\* a positive amount was to be released for a user that has no Balance row,
\* while another user has one
ReleaseOfMissingReturned ==
  \E w \in Workers :
    /\ ReturnedAlone(w)
    /\ call[w].op = "releasePending"
    /\ call[w].amount > 0
    /\ ~base.bal[call[w].userId].exists
    /\ \E u \in Users : base.bal[u].exists


\* C23: the transaction log is append-only: every step of every ledger
\* operation and of every handler leaves each row that was in the log in its
\* place and unchanged.
LogAppendOnly ==
  [][/\ Len(transactions') >= Len(transactions)
     /\ \A i \in 1..Len(transactions) : transactions'[i] = transactions[i]]_vars

\* the log holds rows written by a direct call, by the funding handler and by
\* the closure, one after the other
LogOfCallsAndHandlers ==
  /\ Len(transactions) >= 4
  /\ \E i \in 1..Len(transactions) : transactions[i].type = "DEPOSIT"
  /\ \E i \in 1..Len(transactions) : transactions[i].type = "FUNDING"
  /\ \E i \in 1..Len(transactions) : transactions[i].type = "PAYOUT"


\* C24: getBalance(u) never fails because the user is absent: it returns the
\* existing Balance as it is, or creates and returns the row (0, 0), also
\* when another ledger call that creates the same user's Balance runs beside
\* it; it appends no transaction and alters no existing balance.
GetBalanceNeverFails ==
  /\ \A w \in Workers :
       LET c == call[w] IN
         (proc[w].kind = "api" /\ c.op = "getBalance" /\ c.pc = "returned")
         => /\ c.result = "ok"
            /\ c.ret.exists
            /\ c.ret = (IF c.current.exists THEN c.current ELSE Row(0, 0))
  /\ (/\ \E w \in Workers : proc[w].kind = "api"
      /\ \A w \in Workers : proc[w].kind = "api" => call[w].op = "getBalance")
     => /\ transactions = base.log
        /\ \A u \in Users : base.bal[u].exists => balance[u] = base.bal[u]


\* C25: a releasePending that fails for one editor in step 2 of the closure
\* is not raised to the caller and stops nothing: when step 2 is over,
\* releasePending has been called for every editor with a positive remainder,
\* the saga fails only out of a refund that was due, and a run that completes
\* has appended the refund that was due.
ReleaseFailuresIsolated ==
  LET p == events["end"].payload
      c == p.campaignId
      d == CampaignRecord(c)
      due == d.totalBudget - p.totalPaid > 0 /\ d.isFunded
      run == hist.cur
  IN /\ \A w \in Workers :
          At(w, "refund") =>
            \A u \in Users :
              LET r == Remainder(run.s2begin.log, u, c) IN
                ReleaseCalls(w, u) =
                  IF r > 0 THEN <<[userId |-> u, amount |-> r]>> ELSE <<>>
     /\ run.stage = "failed" => due
     /\ run.stage = "completed" =>
          (due <=> /\ run.after.log # <<>>
                   /\ run.after.log[Len(run.after.log)].type = "REFUND"
                   /\ Len(run.after.log) > Len(run.s2end.log))

\* a run has completed with its refund although the release for the first of
\* two editors with a remainder failed; the second editor's was made
ClosedDespiteFailedRelease ==
  \E w \in Workers :
    LET f == proc[w]
        c == f.campaignData.campaignId
    IN /\ At(w, "sync")
       /\ hist.cur.stage = "completed"
       /\ Len(f.pendingByEditor) = 2
       /\ Len(f.releases) = 2
       /\ Remainder(transactions, f.pendingByEditor[1].userId, c) > 0
       /\ Remainder(transactions, f.pendingByEditor[2].userId, c) = 0
       /\ transactions[Len(transactions)].type = "REFUND"


\* the step of handleCampaignEnded a position of the handler belongs to:
\* 1 finalizeLeaderboard, 2 distributePrizes, 3 the aggregation of the
\* RESERVATION and PAYOUT rows, 4 the releases, 5 the refund and the audit
\* record, 6 and 7 the handler after the saga returned
StepOf(pc) ==
  CASE pc \in {"finalize", "rerank"} -> 1
    [] pc \in {"prizeConfig", "prize", "prizeReserved", "prizePublish"} -> 2
    [] pc \in {"reservations", "payouts"} -> 3
    [] pc \in {"release", "released"} -> 4
    [] pc \in {"refund", "refunded"} -> 5
    [] pc = "sync" -> 6
    [] pc = "ack" -> 7
    [] OTHER -> 0

\* C26: within one invocation of handleCampaignEnded the steps never go
\* back; the leaderboard steps are taken only when the leaderboard is
\* enabled; ranks are written in finalizeLeaderboard only, RESERVATION rows in
\* distributePrizes only, PAYOUT rows in the release loop only, the REFUND row
\* in step 3 only; the refund starts only when the release loop is over, and
\* the saga completes, with its audit record, only out of step 3.
ClosureStepsInOrder ==
  [][\A w \in Workers :
       LET f == proc[w]
           g == proc'[w]
           n == Len(transactions')
       IN f.kind = "campaign.ended" =>
            /\ g.kind = "campaign.ended" => StepOf(g.pc) >= StepOf(f.pc)
            /\ StepOf(f.pc) \in {1, 2} => f.campaignData.enableLeaderboard
            /\ leaderboard' # leaderboard => StepOf(f.pc) = 1
            /\ n > Len(transactions) =>
                 StepOf(f.pc) = (CASE transactions'[n].type = "RESERVATION" -> 2
                                   [] transactions'[n].type = "PAYOUT" -> 4
                                   [] transactions'[n].type = "REFUND" -> 5
                                   [] OTHER -> 0)
            /\ (g.kind = "campaign.ended" /\ g.pc = "refund" /\ f.pc # "refund") =>
                 /\ f.pc = "release"
                 /\ f.idx > Len(f.pendingByEditor)
                 /\ hist'.cur.stage = "step2done"
            /\ (hist'.cur.stage = "completed" /\ hist.cur.stage # "completed") =>
                 StepOf(f.pc) = 5]_vars

\* a run for a campaign with a leaderboard has completed: it ranked entries,
\* reserved a prize, released funds and refunded, in this order
ClosedAfterAllSteps ==
  LET rows == RunRows(hist.cur) IN
    /\ hist.cur.stage = "completed"
    /\ events["end"].payload.hasLeaderboard
    /\ \E i \in 1..Len(rows) : \E j \in 1..Len(rows) : \E k \in 1..Len(rows) :
         /\ i < j /\ j < k
         /\ rows[i].type = "RESERVATION" /\ rows[i].description = "prize"
         /\ rows[j].type = "PAYOUT"
         /\ rows[k].type = "REFUND"


\* C27: when the campaign.ended handler finishes a delivery it has called
\* exactly one of ack and nack; it has called ack only when
\* handleCampaignEnded returned without error, and nack, with the event
\* queued again, when the saga raised or no campaign data was obtained; in
\* the latter case the saga was not run and nothing of the ledger, of the
\* leaderboard or of the run history changed during the delivery.
EndedNacksOnFailure ==
  [][\A w \in Workers :
       LET f == proc[w]
           e == events'["end"]
       IN /\ (f.kind = "campaign.ended" /\ proc'[w].kind = "idle") =>
               /\ e.acks + e.nacks = 1
               /\ e.acks = 1 => (f.pc = "ack" /\ hist.cur.stage = "completed")
               /\ e.nacks = 1 => e.status = "queued"
               /\ (hist'.cur.stage = "failed" /\ hist.cur.stage # "failed") =>
                    e.nacks = 1
               /\ f.pc = "fetch" =>
                    /\ e.nacks = 1
                    /\ <<balance, transactions, leaderboard, hist>>'
                         = <<balance, transactions, leaderboard, hist>>
          /\ (f.kind = "idle" /\ proc'[w].kind = "campaign.ended") =>
               <<balance, transactions, leaderboard, hist>>'
                 = <<balance, transactions, leaderboard, hist>>]_vars

\* the saga raised after it had released funds, and the handler has called
\* nack: the event is queued again
NackedAfterSagaRaised ==
  /\ events["end"].status = "queued"
  /\ events["end"].nacks = 1
  /\ events["end"].acks = 0
  /\ hist.cur.stage = "failed"
  /\ ExistingPayouts(transactions, events["end"].payload.campaignId) # <<>>


\* C28: when the loop of distributePrizes is over, the list it returns holds
\* one record (position, editorId, amount, label) for each position whose
\* reservation was committed to the ledger, in the order of the positions,
\* and no other record.
PrizesReportedFaithfully ==
  \A w \in Workers :
    PrizeLoopDone(w) =>
      LET c == proc[w].campaignData.campaignId
          new == SubSeq(transactions, Len(hist.cur.begin.log) + 1, Len(transactions))
          distributed == proc[w].distributed
      IN /\ Len(distributed) = Len(new)
         /\ \A i \in 1..Len(distributed) :
              /\ distributed[i].editorId = new[i].userId
              /\ distributed[i].amount = new[i].amount
              /\ \E j \in 1..Len(PrizeConfig(c)) :
                   /\ PrizeConfig(c)[j].position = distributed[i].position
                   /\ PrizeConfig(c)[j].reward = distributed[i].amount
                   /\ PrizeConfig(c)[j].label = distributed[i].label


\* C30: calculateCampaignPayments returns one EditorPayment per approved
\* clip it fetched, with platformFee = round(grossAmount * feePercent / 100)
\* and netAmount = grossAmount - platformFee, so that 0 <= netAmount <=
\* grossAmount, and it leaves every balance and the log as they were.
PaymentsAsSpecified ==
  \A w \in Workers :
    LET f == proc[w] IN
      (f.kind = "payments" /\ f.pc = "done") =>
        /\ Len(f.payments) = Len(f.clips)
        /\ \A i \in 1..Len(f.payments) :
             LET pay == f.payments[i] IN
               /\ pay.clipId = f.clips[i]
               /\ pay.editorId = Clip(f.clips[i]).userId
               /\ pay.platformFee =
                    PlatformFeeExact(pay.grossAmount, appConfig.platformFeePercent)
               /\ pay.netAmount = pay.grossAmount - pay.platformFee
               /\ pay.netAmount + pay.platformFee = pay.grossAmount
               /\ 0 <= pay.netAmount
               /\ pay.netAmount <= pay.grossAmount
        /\ Ledger = base

\* the PAYOUT rows a run of processPayouts has appended so far
PayoutsAppended ==
  {i \in (Len(hist.cur.begin.log) + 1)..Len(transactions) :
     transactions[i].type = "PAYOUT"}

\* the run before this one was a run for the same campaign in which every
\* release succeeded, and nothing happened between the two
RepeatsCleanRun ==
  /\ hist.prev.stage = "completed"
  /\ hist.prev.campaignId = hist.cur.campaignId
  /\ hist.prev.total > 0
  /\ hist.prev.processed = hist.prev.total
  /\ hist.cur.begin = hist.prev.after

\* C29: when processPayouts returns, every payment was attempted whatever
\* the releases before it did, the processed count equals the number of
\* PAYOUT rows the call appended, and a call that follows a call for the same
\* campaign in which every release succeeded leaves every balance and the
\* log as they were.
PayoutsIdempotent ==
  \A w \in Workers :
    LET f == proc[w] IN
      (f.kind = "payouts" /\ f.pc = "done") =>
        /\ f.idx = Len(f.payments) + 1
        /\ Len(f.results) = Cardinality(PayoutsAppended)
        /\ RepeatsCleanRun => Ledger = hist.cur.begin

\* two handlers of campaign.ended run side by side for one campaign
RunningSideBySide ==
  /\ \A w \in Workers : proc[w].kind = "campaign.ended"
  /\ events["end"].payload.campaignId = events["end2"].payload.campaignId

\* what was released to a user for a campaign since the log stood at begin
ReleasedSince(begin, u, c) ==
  SumAmounts(RowsFor(SubSeq(transactions, Len(begin) + 1, Len(transactions)),
                     u, c, "PAYOUT"))

\* C31: while two executions of handleCampaignEnded for one campaign run
\* side by side, what they have released to any editor for the campaign, in
\* total, is at most the editor's RESERVATION-minus-PAYOUT remainder for the
\* campaign as it stood before they started, whatever the editor holds in
\* pending for another campaign.
ConcurrentClosuresReleaseOnce ==
  RunningSideBySide =>
    \A u \in Users :
      LET c == events["end"].payload.campaignId
          r == Remainder(base.log, u, c)
      IN ReleasedSince(base.log, u, c) <= (IF r > 0 THEN r ELSE 0)

\* the amounts of the rows of one type recorded for a user, added up
Recorded(u, type) ==
  SumAmounts(SelectSeq(transactions, LAMBDA t : t.userId = u /\ t.type = type))

RaisedAlone(w) ==
  /\ ReturnedAlone(w)
  /\ call[w].op \in Mutators
  /\ call[w].result # "ok"

\* the REFUND rows a closure run had appended when it ended
RefundsOfRun(run) ==
  SelectSeq(SubSeq(run.after.log, Len(run.begin.log) + 1, Len(run.after.log)),
            LAMBDA t : t.type = "REFUND")

\* C33: when a ledger operation has raised an error to its caller, whatever
\* the cause, every balance and the transaction log are as they were before
\* the call; and a closure run that has raised has appended no REFUND and
\* left the creator's balance as it was.
FailedCallLeavesLedger ==
  /\ \A w \in Workers : RaisedAlone(w) => Ledger = base
  /\ hist.cur.stage = "failed" =>
       /\ RefundsOfRun(hist.cur) = <<>>
       /\ hist.cur.after.bal["cr"] = hist.cur.begin.bal["cr"]

\* the step of handleCampaignEnded in which logAudit is called: the one
\* after a refund that was not due or that succeeded
ClosureAudits(w) ==
  /\ proc[w].kind = "campaign.ended"
  /\ \/ proc[w].pc = "refund" /\ ~RefundDue(proc[w].campaignData)
     \/ proc[w].pc = "refunded" /\ call[w].pc = "returned" /\ call[w].result = "ok"
  /\ proc'[w] # proc[w]

\* the step of handleClipApproved in which the audit sink has failed
ClipAuditFails(w) ==
  /\ proc[w].kind = "clip.approved"
  /\ proc[w].pc = "publish"
  /\ proc'[w].audit = "failed"

\* C34: the step in which logAudit is called takes handleCampaignEnded to a
\* normal return, and handleClipApproved too when the audit sink fails: the
\* handler goes on to its next call, the event is neither nacked nor put
\* back, and no balance and no transaction changes, whether the audit record
\* was stored or not.
AuditBestEffort ==
  [][\A w \in Workers :
       /\ ClosureAudits(w) =>
            /\ proc'[w].kind = "campaign.ended"
            /\ proc'[w].pc = "sync"
            /\ proc'[w].audit \in {"written", "failed"}
            /\ hist'.cur.stage = "completed"
            /\ events' = events
            /\ balance' = balance
            /\ transactions' = transactions
       /\ ClipAuditFails(w) =>
            /\ proc'[w].kind = "clip.approved"
            /\ proc'[w].pc = "ack"
            /\ events' = events
            /\ balance' = balance
            /\ transactions' = transactions]_vars

\* the audit sink failed in a closure, whose handler has gone on to the
\* cache sync and is about to acknowledge the event
AuditLostAndAcked ==
  \E w \in Workers :
    /\ proc[w].kind = "campaign.ended"
    /\ proc[w].pc = "ack"
    /\ proc[w].audit = "failed"
    /\ events[proc[w].ev].nacks = 0

\* a step of calculateLeaderboard that changed the leaderboard of the second
\* campaign
CalculateStep == AllIdle /\ leaderboard' # leaderboard

\* the leaderboard after the step is what the fetch scored calls for: the
\* fetched clips hold the ranks 1..K in descending order of score, clips of
\* equal score in fetch order, and every other entry is as it was
RankedAsFetched(scored) ==
  LET K == Len(scored)
      entry(i) == leaderboard'[scored[i].id]
  IN /\ \A i \in 1..K :
          /\ entry(i).exists
          /\ entry(i).submissionId = scored[i].id
          /\ entry(i).campaignId = "c2"
          /\ entry(i).score = scored[i].score
          /\ entry(i).rank \in 1..K
     /\ \A i \in 1..K : \A j \in 1..K :
          \/ i = j
          \/ IF \/ scored[i].score > scored[j].score
                \/ scored[i].score = scored[j].score /\ i < j
               THEN entry(i).rank < entry(j).rank
               ELSE entry(i).rank > entry(j).rank
     /\ \A k \in Clips :
          (\A i \in 1..K : scored[i].id # k) => leaderboard'[k] = leaderboard[k]

====
